---------------------------- MODULE Spec2Model ----------------------------
(***************************************************************************)
(* A model of hlextract.py (the command line front end) and of the parts   *)
(* of hllib.py (the ctypes binding of HLLib) it drives.                     *)
(*                                                                         *)
(* The module holds several state machines that share the library state    *)
(* (packages, bound):                                                      *)
(*   SpecMain      main(): create/bind/open, the batch operations, finally *)
(*   SpecOpen      the console 'open' command (console_open), nested       *)
(*   SpecValidate  validate(item) over a directory tree                    *)
(*   SpecBatch     extract_items / validate_items over the requested paths *)
(*   SpecLs        console_ls with a pattern                               *)
(*   SpecFind      console_find                                            *)
(*   SpecProgress  the progress wrappers installed by set_value            *)
(***************************************************************************)
EXTENDS Integers, Sequences, FiniteSets, TLC

VARIABLES
    packages,   \* library: package id -> "free" | "created" | "opened"
    bound,      \* library: the bound package id, or NoPackage
    raw,        \* main: the command line as argparse returns it
    args,       \* main: the module level args after parse_arguments
    main,       \* main: locals and position
    calls,      \* main: the calls main has made, in order
    stack,      \* console_open: one frame per active console_open call
    console,    \* console_open: the outermost enter_console
    val,        \* validate: item, interpreter, result
    batch,      \* extract_items / validate_items
    ls,         \* console_ls
    find,       \* console_find
    tree,       \* the directory tree of the bound package
    cb,         \* progress wrapper call
    det,        \* get_package_type_from_file
    look,       \* get_item_by_name / get_item_by_path / find_first / find_next
    typ,        \* console_type
    opt,        \* get_value / set_value
    attr,       \* HLAttribute.set
    io          \* HLStream.read / write, get_package_type_from_memory

libVars  == <<packages, bound>>
mainVars == <<raw, args, main, calls>>
openVars == <<stack, console>>
treeVars == <<tree, ls, find>>
unitVars == <<det, look, typ, opt, attr, io>>
notMain  == <<stack, console, val, batch, ls, find, tree, cb, unitVars>>
vars == <<packages, bound, raw, args, main, calls, stack, console,
          val, batch, ls, find, tree, cb, det, look, typ, opt, attr, io>>

(***************************************************************************)
(* Bounds                                                                  *)
(***************************************************************************)
MaxPackages == 3
MaxDepth == 2
MaxCommands == 3
MaxNodes == 4
MaxPaths == 3
MaxIterations == 6

PkgIds == 0 .. (MaxPackages - 1)
\* HL_ID_INVALID (0xffffffff as an hlUInt): no package.
NoPackage == -1
None == "None"

Idle == [pc |-> "idle"]

\* The machines of single functions are at rest.
UnitsIdle ==
    /\ det = Idle
    /\ look = Idle
    /\ typ = Idle
    /\ opt = Idle
    /\ attr = Idle
    /\ io = Idle

(***************************************************************************)
(* The library's package table, as the wrappers of class Package document  *)
(* it: create_package returns a new ID, bind_package binds an ID to the    *)
(* context, open_* and close act on the bound package, delete_package      *)
(* releases the ID.                                                        *)
(***************************************************************************)
RECURSIVE MinOf(_)
MinOf(S) ==
    LET x == CHOOSE y \in S : TRUE
    IN  IF S = {x} THEN x
        ELSE LET m == MinOf(S \ {x}) IN IF x < m THEN x ELSE m

FreeIds(pk) == {i \in PkgIds : pk[i] = "free"}

\* Package.create_package: the ID of the created package; the binding is
\* left alone.  Fails (HLError) when the library cannot create it.
create_package(pk) ==
    LET id == MinOf(FreeIds(pk))
    IN  [id |-> id, packages |-> [pk EXCEPT ![id] = "created"]]

\* Package.bind_package: HLError unless the ID names a live package.
bind_ok(pk, id) == id \in PkgIds /\ pk[id] # "free"

\* Package.open_file / open_stream: opens the bound package.
open_package(pk, b) ==
    IF b \in PkgIds THEN [pk EXCEPT ![b] = "opened"] ELSE pk

\* Package.close: "Closes bound package."
close_package(pk, b) ==
    IF b \in PkgIds /\ pk[b] = "opened" THEN [pk EXCEPT ![b] = "created"]
    ELSE pk

\* Package.delete_package: releases the ID; a deleted package is no
\* longer bound.
delete_package(pk, id) ==
    IF id \in PkgIds THEN [pk EXCEPT ![id] = "free"] ELSE pk

bound_after_delete(b, id) == IF b = id THEN NoPackage ELSE b

IsOpened(pk, id) == id \in PkgIds /\ pk[id] = "opened"

(***************************************************************************)
(* main()                                                                  *)
(***************************************************************************)
RawArgs ==
    [extract : BOOLEAN, validate : BOOLEAN, list : BOOLEAN,
     defragment : BOOLEAN, force_defragment : BOOLEAN,
     console : BOOLEAN, execute : BOOLEAN,
     filemapping : BOOLEAN, quick_filemapping : BOOLEAN, volatile : BOOLEAN]

\* parse_arguments: the flags main reads.  extract, validate and execute
\* stand for "the list is not empty", list for "one of the list options
\* was given".
parse_arguments(r) ==
    LET defr == r.defragment \/ r.force_defragment
    IN  [extract |-> r.extract, validate |-> r.validate, list |-> r.list,
         defragment |-> defr, force_defragment |-> r.force_defragment,
         execute |-> r.execute,
         filemapping |-> r.filemapping \/ r.quick_filemapping,
         quick_filemapping |-> r.quick_filemapping,
         volatile |-> r.volatile,
         console |-> r.console \/
            (~r.extract /\ ~r.validate /\ ~r.list /\ ~defr /\ ~r.console)]

\* hlextract -p <package>: no option but the required one.
NoFlags ==
    [extract |-> FALSE, validate |-> FALSE, list |-> FALSE,
     defragment |-> FALSE, force_defragment |-> FALSE,
     console |-> FALSE, execute |-> FALSE,
     filemapping |-> FALSE, quick_filemapping |-> FALSE, volatile |-> FALSE]

PackageTypes == {"NONE", "NCF", "GCF"}

\* The HLFileMode flags are distinct bits; a mode is the set of the flags
\* OR-ed into it.
get_file_mode_ReadOnly(a) ==
    {"HL_MODE_READ"}
        \cup (IF ~a.filemapping THEN {"HL_MODE_NO_FILEMAPPING"} ELSE {})
        \cup (IF a.quick_filemapping THEN {"HL_MODE_QUICK_FILEMAPPING"} ELSE {})
        \cup (IF a.volatile THEN {"HL_MODE_VOLATILE"} ELSE {})

get_file_mode(a) ==
    {"HL_MODE_READ"}
        \cup (IF a.defragment THEN {"HL_MODE_WRITE"} ELSE {})
        \cup (IF ~a.filemapping THEN {"HL_MODE_NO_FILEMAPPING"} ELSE {})
        \cup (IF a.quick_filemapping THEN {"HL_MODE_QUICK_FILEMAPPING"} ELSE {})
        \cup (IF a.volatile THEN {"HL_MODE_VOLATILE"} ELSE {})

MainInit ==
    [pc |-> "parse", package_created |-> FALSE, package_opened |-> FALSE,
     package_id |-> NoPackage, package_type |-> None, raised |-> FALSE,
     file_mode |-> {}, error |-> None]

Call(op, ok) ==
    [op |-> op, ok |-> ok, bound |-> bound,
     opened |-> IsOpened(packages, bound)]

\* An exception leaves the try body for the finally clause.
Raise(m) == [m EXCEPT !.pc = "finally_close", !.raised = TRUE]

MainParse ==
    /\ main.pc = "parse"
    /\ args' = parse_arguments(raw)
    /\ main' = [main EXCEPT !.pc = "initialize"]
    /\ UNCHANGED <<packages, bound, raw, calls, notMain>>

MainInitialize ==
    /\ main.pc = "initialize"
    /\ calls' = Append(calls, Call("initialize", TRUE))
    /\ main' = [main EXCEPT !.pc = "set_options"]
    /\ UNCHANGED <<packages, bound, raw, args, notMain>>

\* set_options: any of the set_value calls may raise HLError.
MainSetOptions ==
    /\ main.pc = "set_options"
    /\ \E ok \in BOOLEAN :
        /\ calls' = Append(calls, Call("set_options", ok))
        /\ main' = IF ok THEN [main EXCEPT !.pc = "get_package_type"]
                   ELSE Raise(main)
    /\ UNCHANGED <<packages, bound, raw, args, notMain>>

\* Variant: HL_PACKAGE_NONE is not tested.
MainGetPackageType_NoTest ==
    /\ main.pc = "get_package_type"
    /\ \/ \E t \in PackageTypes :
            /\ calls' = Append(calls, Call("get_package_type", TRUE))
            /\ main' = [main EXCEPT !.pc = "create_package",
                                    !.package_type = t]
       \/ /\ calls' = Append(calls, Call("get_package_type", FALSE))
          /\ main' = Raise(main)
    /\ UNCHANGED <<packages, bound, raw, args, notMain>>

\* get_package_type_from_file, and the HL_PACKAGE_NONE test after it.
MainGetPackageType ==
    /\ main.pc = "get_package_type"
    /\ \/ \E t \in PackageTypes :
            /\ calls' = Append(calls, Call("get_package_type", TRUE))
            /\ main' = IF t = "NONE"
                       THEN [Raise(main) EXCEPT !.package_type = t,
                                !.error = "Unsupported package type."]
                       ELSE [main EXCEPT !.pc = "create_package",
                                         !.package_type = t]
       \/ /\ calls' = Append(calls, Call("get_package_type", FALSE))
          /\ main' = Raise(main)
    /\ UNCHANGED <<packages, bound, raw, args, notMain>>

MainCreatePackage ==
    /\ main.pc = "create_package"
    /\ \/ /\ FreeIds(packages) # {}
          /\ LET r == create_package(packages)
             IN  /\ packages' = r.packages
                 /\ calls' = Append(calls,
                        [Call("create_package", TRUE) EXCEPT !.bound = r.id])
                 /\ main' = [main EXCEPT !.pc = "bind_package",
                                         !.package_id = r.id,
                                         !.package_created = TRUE]
       \/ /\ calls' = Append(calls, Call("create_package", FALSE))
          /\ main' = Raise(main)
          /\ UNCHANGED packages
    /\ UNCHANGED <<bound, raw, args, notMain>>

MainBindPackage ==
    /\ main.pc = "bind_package"
    /\ IF bind_ok(packages, main.package_id)
       THEN /\ bound' = main.package_id
            /\ calls' = Append(calls,
                    [Call("bind_package", TRUE) EXCEPT !.bound = main.package_id])
            /\ main' = [main EXCEPT !.pc = "open_file"]
       ELSE /\ calls' = Append(calls, Call("bind_package", FALSE))
            /\ main' = Raise(main)
            /\ UNCHANGED bound
    /\ UNCHANGED <<packages, raw, args, notMain>>

\* Variant: open_file's failure is not raised.
MainOpenFile_IgnoreFailure ==
    /\ main.pc = "open_file"
    /\ \/ /\ packages' = open_package(packages, bound)
          /\ calls' = Append(calls, Call("open_file", TRUE))
          /\ main' = [main EXCEPT !.pc = "set_root_path",
                                  !.file_mode = get_file_mode(args),
                                  !.package_opened = TRUE]
       \/ /\ calls' = Append(calls, Call("open_file", FALSE))
          /\ main' = [main EXCEPT !.pc = "set_root_path",
                                  !.file_mode = get_file_mode(args)]
          /\ UNCHANGED packages
    /\ UNCHANGED <<bound, raw, args, notMain>>

\* Package.open_file(args.package, get_file_mode()); package_opened = True
MainOpenFile ==
    /\ main.pc = "open_file"
    /\ \/ /\ packages' = open_package(packages, bound)
          /\ calls' = Append(calls, Call("open_file", TRUE))
          /\ main' = [main EXCEPT !.pc = "set_root_path",
                                  !.file_mode = get_file_mode(args),
                                  !.package_opened = TRUE]
       \/ /\ calls' = Append(calls, Call("open_file", FALSE))
          /\ main' = [Raise(main) EXCEPT !.file_mode = get_file_mode(args)]
          /\ UNCHANGED packages
    /\ UNCHANGED <<bound, raw, args, notMain>>

\* NCFFile.set_root_path for an NCF package, then the "opened" message.
MainSetRootPath ==
    /\ main.pc = "set_root_path"
    /\ calls' = IF main.package_type = "NCF"
                THEN Append(calls, Call("set_root_path", TRUE)) ELSE calls
    /\ main' = [main EXCEPT !.pc = "extract_items"]
    /\ UNCHANGED <<packages, bound, raw, args, notMain>>

\* One of "if args.<flag>: <operation>()": the operation returns or
\* raises; skipped when the flag is not set.
MainOperation(op, flag, next) ==
    /\ main.pc = op
    /\ IF flag
       THEN \E ok \in BOOLEAN :
            /\ calls' = Append(calls, Call(op, ok))
            /\ main' = IF ok THEN [main EXCEPT !.pc = next] ELSE Raise(main)
       ELSE /\ main' = [main EXCEPT !.pc = next]
            /\ UNCHANGED calls

MainExtract ==
    /\ MainOperation("extract_items", args.extract, "validate_items")
    /\ UNCHANGED <<packages, bound, raw, args, notMain>>

MainValidate ==
    /\ MainOperation("validate_items", args.validate, "list_items")
    /\ UNCHANGED <<packages, bound, raw, args, notMain>>

MainList ==
    /\ MainOperation("list_items", args.list, "defragment")
    /\ UNCHANGED <<packages, bound, raw, args, notMain>>

MainDefragment ==
    /\ MainOperation("defragment", args.defragment, "enter_console")
    /\ UNCHANGED <<packages, bound, raw, args, notMain>>

\* enter_console(package_id).  A console 'open' command may have closed
\* the package on the way (see console_open below); the console leaves
\* the package bound.
MainConsole ==
    /\ MainOperation("enter_console", args.console, "finally_close")
    /\ \E closed \in BOOLEAN :
        packages' = IF args.console /\ closed
                    THEN close_package(packages, bound) ELSE packages
    /\ UNCHANGED <<bound, raw, args, notMain>>

\* Variant: the finally clause closes without testing package_opened.
MainFinallyClose_Always ==
    /\ main.pc = "finally_close"
    /\ packages' = close_package(packages, bound)
    /\ calls' = Append(calls, Call("close", TRUE))
    /\ main' = [main EXCEPT !.pc = "finally_delete"]
    /\ UNCHANGED <<bound, raw, args, notMain>>

\* finally: if package_opened: hl.Package.close()
MainFinallyClose ==
    /\ main.pc = "finally_close"
    /\ IF main.package_opened
       THEN /\ packages' = close_package(packages, bound)
            /\ calls' = Append(calls, Call("close", TRUE))
       ELSE UNCHANGED <<packages, calls>>
    /\ main' = [main EXCEPT !.pc = "finally_delete"]
    /\ UNCHANGED <<bound, raw, args, notMain>>

\* finally: if package_created: hl.Package.delete_package(package_id)
MainFinallyDelete ==
    /\ main.pc = "finally_delete"
    /\ IF main.package_created
       THEN /\ packages' = delete_package(packages, main.package_id)
            /\ bound' = bound_after_delete(bound, main.package_id)
            /\ calls' = Append(calls,
                    [Call("delete_package", TRUE) EXCEPT !.bound = main.package_id])
       ELSE UNCHANGED <<packages, bound, calls>>
    /\ main' = [main EXCEPT !.pc = "shutdown"]
    /\ UNCHANGED <<raw, args, notMain>>

\* finally: hl.shutdown()
MainShutdown ==
    /\ main.pc = "shutdown"
    /\ calls' = Append(calls, Call("shutdown", TRUE))
    /\ main' = [main EXCEPT !.pc = "done"]
    /\ UNCHANGED <<packages, bound, raw, args, notMain>>

MainNext ==
    \/ MainParse
    \/ MainInitialize
    \/ MainSetOptions
    \/ MainGetPackageType
    \/ MainCreatePackage
    \/ MainBindPackage
    \/ MainOpenFile
    \/ MainSetRootPath
    \/ MainExtract
    \/ MainValidate
    \/ MainList
    \/ MainDefragment
    \/ MainConsole
    \/ MainFinallyClose
    \/ MainFinallyDelete
    \/ MainShutdown

NoPackages == [i \in PkgIds |-> "free"]

InitMain ==
    /\ packages = NoPackages
    /\ bound = NoPackage
    /\ raw \in RawArgs
    /\ args = None
    /\ main = MainInit
    /\ calls = <<>>
    /\ stack = <<>>
    /\ console = Idle
    /\ val = Idle
    /\ batch = Idle
    /\ ls = Idle
    /\ find = Idle
    /\ tree = Idle
    /\ cb = Idle
    /\ UnitsIdle

SpecMain == InitMain /\ [][MainNext]_vars


CallsOf(op) == {i \in DOMAIN calls : calls[i].op = op}
Succeeded(op) == \E i \in DOMAIN calls : calls[i].op = op /\ calls[i].ok

\* C3: when main has ended, normally or by an exception raised after
\* hl.initialize, Package.close was called iff open_file succeeded,
\* Package.delete_package iff create_package succeeded, hl.shutdown exactly
\* once, and they were called in the order close, delete, shutdown, with
\* shutdown the last call of all.
C3_ReleaseOnEveryExit ==
    main.pc = "done" =>
        /\ Cardinality(CallsOf("close")) =
                (IF Succeeded("open_file") THEN 1 ELSE 0)
        /\ Cardinality(CallsOf("delete_package")) =
                (IF Succeeded("create_package") THEN 1 ELSE 0)
        /\ Cardinality(CallsOf("shutdown")) = 1
        /\ \A i \in CallsOf("close") : \A j \in CallsOf("delete_package") : i < j
        /\ \A i \in CallsOf("close") \cup CallsOf("delete_package") :
                \A j \in CallsOf("shutdown") : i < j
        /\ calls[Len(calls)].op = "shutdown"

\* main ended by an exception raised by an operation that ran on the
\* opened package, and closed and deleted the package on the way out.
C3_Witness ==
    /\ main.pc = "done"
    /\ main.raised
    /\ Succeeded("open_file")
    /\ \E i \in CallsOf("validate_items") : ~calls[i].ok
    /\ CallsOf("close") # {}
    /\ CallsOf("delete_package") # {}

Operations ==
    <<"extract_items", "validate_items", "list_items", "defragment",
      "enter_console">>

IsOperation(op) == \E k \in DOMAIN Operations : Operations[k] = op
Rank(op) == CHOOSE k \in DOMAIN Operations : Operations[k] = op

\* C4: every one of extract_items, validate_items, list_items, defragment
\* and enter_console that main calls is called after create_package,
\* bind_package and open_file succeeded, in that order and for the package
\* that is bound and opened at the call; the operations are called in that
\* fixed order, and none is called after Package.close.
C4_OperationsOnOpenedPackage ==
    \A i \in DOMAIN calls :
        IsOperation(calls[i].op) =>
            /\ \E c \in 1 .. i : \E b \in c .. i : \E o \in b .. i :
                /\ calls[c].op = "create_package" /\ calls[c].ok
                /\ calls[b].op = "bind_package" /\ calls[b].ok
                /\ calls[o].op = "open_file" /\ calls[o].ok
                /\ calls[b].bound = calls[c].bound
                /\ calls[o].bound = calls[c].bound
                /\ calls[i].bound = calls[c].bound
            /\ calls[i].opened
            /\ \A j \in 1 .. (i - 1) :
                /\ calls[j].op # "close"
                /\ IsOperation(calls[j].op) =>
                        Rank(calls[j].op) < Rank(calls[i].op)

\* main ran extract_items and later entered the console.
C4_Witness ==
    /\ CallsOf("extract_items") # {}
    /\ CallsOf("defragment") # {}
    /\ CallsOf("enter_console") # {}

\* C13: when detection yields HL_PACKAGE_NONE main raises the HLError
\* "Unsupported package type": no package is created, bound, opened,
\* closed or deleted and no operation runs; the only call made after the
\* detection is hl.shutdown, once.
C13_UnsupportedTypeOnlyShutsDown ==
    main.package_type = "NONE" =>
        /\ main.raised
        /\ main.error = "Unsupported package type."
        /\ \A i \in DOMAIN calls :
                calls[i].op \in {"initialize", "set_options",
                                 "get_package_type", "shutdown"}
        /\ packages = NoPackages
        /\ bound = NoPackage
        /\ main.pc = "done" =>
                /\ Cardinality(CallsOf("shutdown")) = 1
                /\ calls[Len(calls)].op = "shutdown"
                /\ calls[Len(calls) - 1].op = "get_package_type"

\* main has ended after a detection that gave HL_PACKAGE_NONE.
C13_Witness ==
    /\ main.pc = "done"
    /\ main.package_type = "NONE"
    /\ Succeeded("get_package_type")

\* C15: defragment runs only on a package opened with HL_MODE_WRITE in
\* its file mode: with --defragment or --force-defragment the mode given
\* to open_file contains HL_MODE_WRITE, without either it does not.
C15_DefragmentOpensForWriting ==
    /\ \A i \in CallsOf("defragment") :
            /\ Succeeded("open_file")
            /\ "HL_MODE_WRITE" \in main.file_mode
    /\ CallsOf("open_file") # {} =>
            /\ "HL_MODE_READ" \in main.file_mode
            /\ ("HL_MODE_WRITE" \in main.file_mode)
                    = (raw.defragment \/ raw.force_defragment)

\* Only --force-defragment was given, and defragment ran.
C15_Witness ==
    /\ CallsOf("defragment") # {}
    /\ raw.force_defragment
    /\ ~raw.defragment
    /\ "HL_MODE_WRITE" \in main.file_mode

\* C21: --execute implies console mode: whatever the other options, when
\* at least one -x/--execute command is given and nothing raised on the
\* way, main entered the console.
C21_ExecuteImpliesConsole ==
    (main.pc = "done" /\ ~main.raised /\ raw.execute) =>
        /\ args.console
        /\ CallsOf("enter_console") # {}

(***************************************************************************)
(* enter_console and the console 'open' command (console_open).            *)
(*                                                                         *)
(* console is the outermost enter_console, entered for an opened and bound *)
(* package.  Each active console_open call is a frame of stack; a frame    *)
(* at "enter_console" is running the console of the nested package.  A    *)
(* console command other than 'open' and 'exit' is modelled by its only    *)
(* effect on this machine: it returns, or raises HLError out of            *)
(* enter_console (console_extract, for one, catches nothing).              *)
(***************************************************************************)
notOpen ==
    <<raw, args, main, calls, val, batch, ls, find, tree, cb, unitVars>>

Top == stack[Len(stack)]
SetTop(f) == [stack EXCEPT ![Len(stack)] = f]

AtPrompt ==
    /\ console.pc = "running"
    /\ stack # <<>> => Top.pc = "enter_console"

\* The package_id argument of the running enter_console.
ConsolePackage == IF stack = <<>> THEN console.package_id ELSE Top.package_id

Frame(current) ==
    [pc |-> "create_stream", current_package_id |-> current,
     package_id |-> NoPackage, stream |-> "none",
     stream_created |-> FALSE, stream_opened |-> FALSE,
     package_created |-> FALSE, package_opened |-> FALSE, raised |-> FALSE,
     events |-> <<>>]

\* The frame after one of the calls that end a resource: stream.close,
\* release_stream, Package.close (on the package bound at the call) and
\* Package.delete_package (on the ID given).
Event(f, op, id) == [f EXCEPT !.events = Append(@, [op |-> op, id |-> id])]

\* The 'open' command: console_open up to the name lookup.  With no
\* argument, or when get_item_by_name returns None, it returns at once.
\* The items of a closed package are gone: looking a name up in one is
\* undefined in the library, it may find nothing or crash.
ConsoleOpen ==
    /\ AtPrompt
    /\ console.commands < MaxCommands
    /\ Len(stack) < MaxDepth
    /\ \E found \in BOOLEAN :
        IF IsOpened(packages, ConsolePackage)
        THEN /\ stack' = IF found THEN Append(stack, Frame(ConsolePackage))
                         ELSE stack
             /\ console' = [console EXCEPT !.commands = @ + 1]
        ELSE /\ console' = [console EXCEPT !.commands = @ + 1,
                                !.pc = IF found THEN "crashed" ELSE @]
             /\ UNCHANGED stack
    /\ UNCHANGED <<packages, bound, notOpen>>

\* The 'exit' command: enter_console returns.
ConsoleExit ==
    /\ AtPrompt
    /\ IF stack = <<>>
       THEN /\ console' = [console EXCEPT !.pc = "exited"]
            /\ UNCHANGED stack
       ELSE /\ stack' = SetTop([Top EXCEPT !.pc = "close"])
            /\ UNCHANGED console
    /\ UNCHANGED <<packages, bound, notOpen>>

\* A command (or get_root) raises HLError, which leaves enter_console.
ConsoleError ==
    /\ AtPrompt
    /\ IF stack = <<>>
       THEN /\ console' = [console EXCEPT !.pc = "error"]
            /\ UNCHANGED stack
       ELSE /\ stack' = SetTop([Top EXCEPT !.pc = "except", !.raised = TRUE])
            /\ UNCHANGED console
    /\ UNCHANGED <<packages, bound, notOpen>>

InFrame(pc) ==
    /\ console.pc = "running"
    /\ stack # <<>>
    /\ Top.pc = pc

Except(f) == [f EXCEPT !.pc = "except", !.raised = TRUE]

\* stream = sub_item.create_stream(); stream_created = True
OpenCreateStream ==
    /\ InFrame("create_stream")
    /\ \/ stack' = SetTop([Top EXCEPT !.pc = "stream_open",
                               !.stream = "created", !.stream_created = TRUE])
       \/ stack' = SetTop(Except(Top))
    /\ UNCHANGED <<packages, bound, console, notOpen>>

\* stream.open(HL_MODE_READ); stream_opened = True
OpenStreamOpen ==
    /\ InFrame("stream_open")
    /\ \/ stack' = SetTop([Top EXCEPT !.pc = "create_package",
                               !.stream = "opened", !.stream_opened = TRUE])
       \/ stack' = SetTop(Except(Top))
    /\ UNCHANGED <<packages, bound, console, notOpen>>

\* package_type = get_package_type_from_stream(stream);
\* package_id = create_package(package_type); package_created = True
OpenCreatePackage ==
    /\ InFrame("create_package")
    /\ \/ /\ FreeIds(packages) # {}
          /\ LET r == create_package(packages)
             IN  /\ packages' = r.packages
                 /\ stack' = SetTop([Top EXCEPT !.pc = "bind_package",
                                         !.package_id = r.id,
                                         !.package_created = TRUE])
       \/ /\ stack' = SetTop(Except(Top))
          /\ UNCHANGED packages
    /\ UNCHANGED <<bound, console, notOpen>>

\* hl.Package.bind_package(package_id)
OpenBindPackage ==
    /\ InFrame("bind_package")
    /\ IF bind_ok(packages, Top.package_id)
       THEN /\ bound' = Top.package_id
            /\ stack' = SetTop([Top EXCEPT !.pc = "open_stream"])
       ELSE /\ stack' = SetTop(Except(Top))
            /\ UNCHANGED bound
    /\ UNCHANGED <<packages, console, notOpen>>

\* hl.Package.open_stream(stream, HL_MODE_READ); package_opened = True;
\* then enter_console(package_id)
OpenOpenStream ==
    /\ InFrame("open_stream")
    /\ \/ /\ packages' = open_package(packages, bound)
          /\ stack' = SetTop([Top EXCEPT !.pc = "enter_console",
                                  !.package_opened = TRUE])
       \/ /\ stack' = SetTop(Except(Top))
          /\ UNCHANGED packages
    /\ UNCHANGED <<bound, console, notOpen>>

\* after enter_console: hl.Package.close()
OpenClose ==
    /\ InFrame("close")
    /\ packages' = close_package(packages, bound)
    /\ stack' = SetTop([Event(Top, "Package.close", bound)
                            EXCEPT !.pc = "delete"])
    /\ UNCHANGED <<bound, console, notOpen>>

\* hl.Package.delete_package(package_id)
OpenDelete ==
    /\ InFrame("delete")
    /\ packages' = delete_package(packages, Top.package_id)
    /\ bound' = bound_after_delete(bound, Top.package_id)
    /\ stack' = SetTop([Event(Top, "Package.delete_package", Top.package_id)
                            EXCEPT !.pc = "bind_current"])
    /\ UNCHANGED <<console, notOpen>>

\* hl.Package.bind_package(current_package_id)
OpenBindCurrent ==
    /\ InFrame("bind_current")
    /\ IF bind_ok(packages, Top.current_package_id)
       THEN /\ bound' = Top.current_package_id
            /\ stack' = SetTop([Top EXCEPT !.pc = "stream_close"])
       ELSE /\ stack' = SetTop(Except(Top))
            /\ UNCHANGED bound
    /\ UNCHANGED <<packages, console, notOpen>>

\* stream.close()
OpenStreamClose ==
    /\ InFrame("stream_close")
    /\ stack' = SetTop([Event(Top, "stream.close", NoPackage)
                            EXCEPT !.pc = "release", !.stream = "closed"])
    /\ UNCHANGED <<packages, bound, console, notOpen>>

\* sub_item.release_stream(stream); the try body is done
OpenRelease ==
    /\ InFrame("release")
    /\ stack' = SetTop([Event(Top, "release_stream", NoPackage)
                            EXCEPT !.pc = "finally_stream_close",
                                   !.stream = "released"])
    /\ UNCHANGED <<packages, bound, console, notOpen>>

\* except hl.HLError as ex: print(ex)
OpenExcept ==
    /\ InFrame("except")
    /\ stack' = SetTop([Top EXCEPT !.pc = "finally_stream_close"])
    /\ UNCHANGED <<packages, bound, console, notOpen>>

\* finally: if stream_opened: stream.close().  Closing a stream that was
\* released is a call on a freed object: it may do nothing or crash.
OpenFinallyStreamClose ==
    /\ InFrame("finally_stream_close")
    /\ IF ~Top.stream_opened
       THEN /\ stack' = SetTop([Top EXCEPT !.pc = "finally_release"])
            /\ UNCHANGED console
       ELSE IF Top.stream = "released"
       THEN \/ /\ stack' = SetTop([Event(Top, "stream.close", NoPackage)
                                       EXCEPT !.pc = "finally_release"])
               /\ UNCHANGED console
            \/ /\ console' = [console EXCEPT !.pc = "crashed"]
               /\ stack' = SetTop(Event(Top, "stream.close", NoPackage))
       ELSE /\ stack' = SetTop([Event(Top, "stream.close", NoPackage)
                                    EXCEPT !.pc = "finally_release",
                                           !.stream = "closed"])
            /\ UNCHANGED console
    /\ UNCHANGED <<packages, bound, notOpen>>

\* finally: if stream_created: sub_item.release_stream(stream)
OpenFinallyRelease ==
    /\ InFrame("finally_release")
    /\ stack' = SetTop(
            IF Top.stream_created
            THEN [Event(Top, "release_stream", NoPackage)
                    EXCEPT !.pc = "finally_close", !.stream = "released"]
            ELSE [Top EXCEPT !.pc = "finally_close"])
    /\ UNCHANGED <<packages, bound, console, notOpen>>

\* finally: if package_opened: hl.Package.close()
OpenFinallyClose ==
    /\ InFrame("finally_close")
    /\ packages' = IF Top.package_opened THEN close_package(packages, bound)
                   ELSE packages
    /\ stack' = SetTop(
            [(IF Top.package_opened THEN Event(Top, "Package.close", bound)
              ELSE Top) EXCEPT !.pc = "finally_delete"])
    /\ UNCHANGED <<bound, console, notOpen>>

\* finally: if package_created: hl.Package.delete_package(package_id)
OpenFinallyDelete ==
    /\ InFrame("finally_delete")
    /\ IF Top.package_created
       THEN /\ packages' = delete_package(packages, Top.package_id)
            /\ bound' = bound_after_delete(bound, Top.package_id)
       ELSE UNCHANGED <<packages, bound>>
    /\ stack' = SetTop(
            [(IF Top.package_created
              THEN Event(Top, "Package.delete_package", Top.package_id)
              ELSE Top) EXCEPT !.pc = "finally_bind"])
    /\ UNCHANGED <<console, notOpen>>

\* Variant: the finally clause ends without rebinding.
OpenFinallyBind_Skip ==
    /\ InFrame("finally_bind")
    /\ stack' = SetTop([Top EXCEPT !.pc = "returned"])
    /\ UNCHANGED <<packages, bound, console, notOpen>>

\* finally: hl.Package.bind_package(current_package_id); console_open
\* returns, or the HLError of bind_package leaves it.
OpenFinallyBind ==
    /\ InFrame("finally_bind")
    /\ IF bind_ok(packages, Top.current_package_id)
       THEN /\ bound' = Top.current_package_id
            /\ stack' = SetTop([Top EXCEPT !.pc = "returned"])
       ELSE /\ stack' = SetTop([Top EXCEPT !.pc = "propagate"])
            /\ UNCHANGED bound
    /\ UNCHANGED <<packages, console, notOpen>>

\* Back in the calling enter_console: the next prompt, or the HLError
\* travels on through the caller.
OpenReturn ==
    /\ console.pc = "running"
    /\ stack # <<>>
    /\ Top.pc \in {"returned", "propagate"}
    /\ LET rest == SubSeq(stack, 1, Len(stack) - 1)
       IN  IF Top.pc = "returned"
           THEN /\ stack' = rest
                /\ UNCHANGED console
           ELSE IF rest = <<>>
           THEN /\ stack' = rest
                /\ console' = [console EXCEPT !.pc = "error"]
           ELSE /\ stack' = [rest EXCEPT ![Len(rest)] = Except(rest[Len(rest)])]
                /\ UNCHANGED console
    /\ UNCHANGED <<packages, bound, notOpen>>

OpenNext ==
    \/ ConsoleOpen
    \/ ConsoleExit
    \/ ConsoleError
    \/ OpenCreateStream
    \/ OpenStreamOpen
    \/ OpenCreatePackage
    \/ OpenBindPackage
    \/ OpenOpenStream
    \/ OpenClose
    \/ OpenDelete
    \/ OpenBindCurrent
    \/ OpenStreamClose
    \/ OpenRelease
    \/ OpenExcept
    \/ OpenFinallyStreamClose
    \/ OpenFinallyRelease
    \/ OpenFinallyClose
    \/ OpenFinallyDelete
    \/ OpenFinallyBind
    \/ OpenReturn

\* main has created, bound and opened package 0 and entered the console.
InitOpen ==
    /\ packages = [NoPackages EXCEPT ![0] = "opened"]
    /\ bound = 0
    /\ stack = <<>>
    /\ console = [pc |-> "running", package_id |-> 0, commands |-> 0]
    /\ raw = NoFlags
    /\ args = parse_arguments(NoFlags)
    /\ main = [MainInit EXCEPT !.pc = "enter_console", !.package_id = 0,
                    !.package_created = TRUE, !.package_opened = TRUE]
    /\ calls = <<>>
    /\ val = Idle
    /\ batch = Idle
    /\ ls = Idle
    /\ find = Idle
    /\ tree = Idle
    /\ cb = Idle
    /\ UnitsIdle

SpecOpen == InitOpen /\ [][OpenNext]_vars

Returned == console.pc = "running" /\ stack # <<>> /\ Top.pc = "returned"

\* C1: when console_open has returned, by the normal path or by an HLError
\* path, the enclosing package current_package_id is still open.
C1_EnclosingPackageStaysOpen ==
    Returned => IsOpened(packages, Top.current_package_id)

\* C2: when console_open has left its try statement, on every exit path,
\* the bound package is current_package_id again.
C2_BindingRestored ==
    /\ console.pc = "running"
    /\ stack # <<>>
    /\ Top.pc \in {"returned", "propagate"}
    => bound = Top.current_package_id

\* console_open returned after an HLError in the nested console, with the
\* nested package bound when the finally clause began.
C2_Witness ==
    /\ Returned
    /\ Top.raised
    /\ Top.package_opened
    /\ Len(stack) = MaxDepth

\* The positions in the frame's events of the calls of op (on package id,
\* for the calls on a package).
EventsAt(f, op) == {i \in DOMAIN f.events : f.events[i].op = op}
NestedAt(f, op) == {i \in EventsAt(f, op) : f.events[i].id = f.package_id}

\* C22: in every console_open, on every exit path, the stream is closed
\* at most once and released at most once and never closed after its
\* release, and the nested package is closed at most once and deleted at
\* most once.
C22_EachResourceEndedOnce ==
    \A k \in DOMAIN stack :
        LET f == stack[k]
        IN  /\ Cardinality(EventsAt(f, "stream.close")) <= 1
            /\ Cardinality(EventsAt(f, "release_stream")) <= 1
            /\ \A i \in EventsAt(f, "release_stream") :
                    \A j \in EventsAt(f, "stream.close") : j < i
            /\ Cardinality(NestedAt(f, "Package.close")) <= 1
            /\ Cardinality(NestedAt(f, "Package.delete_package")) <= 1

\* C23: in every console_open whose nested package was opened from the
\* stream, each stream.close and each release_stream comes after the
\* Package.close that closed the nested package.
C23_PackageClosedBeforeItsStream ==
    \A k \in DOMAIN stack :
        LET f == stack[k]
        IN  f.package_opened =>
                \A i \in EventsAt(f, "stream.close")
                            \cup EventsAt(f, "release_stream") :
                    \E j \in NestedAt(f, "Package.close") : j < i

(***************************************************************************)
(* The directory tree of the bound package.                                *)
(*                                                                         *)
(* tree is a sequence of items; item 1 is the root folder, the parent of   *)
(* an item is a folder with a smaller index, and the children of a folder  *)
(* are ordered by index (get_item(0), get_item(1), ...).  A file carries   *)
(* the result of get_validation(); match says whether the item's name      *)
(* matches the pattern of the running console command.                     *)
(***************************************************************************)
HL_VALIDATES_OK == 0
HL_VALIDATES_ASSUMED_OK == 1
HL_VALIDATES_INCOMPLETE == 2
HL_VALIDATES_CORRUPT == 3
HL_VALIDATES_CANCELED == 4
HL_VALIDATES_ERROR == 5

HLValidation ==
    {HL_VALIDATES_OK, HL_VALIDATES_ASSUMED_OK, HL_VALIDATES_INCOMPLETE,
     HL_VALIDATES_CORRUPT, HL_VALIDATES_CANCELED, HL_VALIDATES_ERROR}

Root == [type |-> "Folder", parent |-> 0, validation |-> HL_VALIDATES_OK,
         match |-> FALSE]

Items == DOMAIN tree
IsFolder(t, n) == t[n].type = "Folder"
IsFile(t, n) == t[n].type = "File"

\* The tree with one more item under an existing folder.
AddItem(t, parent, type, validation, match) ==
    Append(t, [type |-> type, parent |-> parent, validation |-> validation,
               match |-> match])

\* get_count() / get_item(idx): the children of folder n, in index order.
RECURSIVE ChildrenFrom(_, _, _)
ChildrenFrom(t, n, i) ==
    IF i > Len(t) THEN <<>>
    ELSE IF t[i].parent = n THEN <<i>> \o ChildrenFrom(t, n, i + 1)
    ELSE ChildrenFrom(t, n, i + 1)

Children(t, n) == ChildrenFrom(t, n, 1)

(***************************************************************************)
(* validate(item)                                                          *)
(*                                                                         *)
(* Python values are tagged, so that None and an HLValidation number can   *)
(* meet in max() as they do in the code.  hlextract runs under Python 2    *)
(* and Python 3 (it picks raw_input or input at run time); max(n, None)    *)
(* is n under Python 2, where None orders below every number, and raises   *)
(* TypeError under Python 3.                                               *)
(***************************************************************************)
PyNone == [type |-> "NoneType"]
PyInt(v) == [type |-> "int", value |-> v]
TypeError == [type |-> "TypeError"]

PyMax(a, b, py) ==
    IF a.type = "int" /\ b.type = "int"
    THEN (IF b.value > a.value THEN b ELSE a)
    ELSE IF py = 3 THEN TypeError
    ELSE IF a.type = "int" THEN a
    ELSE b

\* validate(item): what the call returns (ret), whether it raised, and the
\* validation it printed for the item (shown).  The function has no return
\* statement: a call that does not raise returns None.
RECURSIVE validate(_, _, _)
RECURSIVE validate_folder(_, _, _, _)
\* for idx in range(item.get_count()):
\*     validation = max(validation, validate(item.get_item(idx)))
validate_folder(t, kids, validation, py) ==
    IF kids = <<>> THEN [raised |-> FALSE, validation |-> validation]
    ELSE LET sub == validate(t, Head(kids), py)
         IN  IF sub.raised THEN [raised |-> TRUE, validation |-> validation]
             ELSE LET m == PyMax(validation, sub.ret, py)
                  IN  IF m = TypeError
                      THEN [raised |-> TRUE, validation |-> validation]
                      ELSE validate_folder(t, Tail(kids), m, py)

validate(t, n, py) ==
    IF IsFolder(t, n)
    THEN LET r == validate_folder(t, Children(t, n),
                                  PyInt(HL_VALIDATES_OK), py)
         IN  [raised |-> r.raised, ret |-> PyNone,
              shown |-> IF r.raised THEN PyNone ELSE r.validation]
    ELSE [raised |-> FALSE, ret |-> PyNone,
          shown |-> PyInt(t[n].validation)]

notValidate ==
    <<packages, bound, raw, args, main, calls, stack, console, batch, ls,
      find, cb, unitVars>>

\* The package holds one more item.
ValAddItem ==
    /\ val.pc = "ready"
    /\ Len(tree) < MaxNodes
    /\ \E parent \in Items : \E type \in {"Folder", "File"} :
       \E v \in HLValidation :
        /\ IsFolder(tree, parent)
        /\ type = "Folder" => v = HL_VALIDATES_OK
        /\ tree' = AddItem(tree, parent, type, v, FALSE)
    /\ UNCHANGED <<val, notValidate>>

\* validate(item) is called (validate_items, console_validate) and ends.
ValValidate ==
    /\ val.pc = "ready"
    /\ \E n \in Items :
        val' = [val EXCEPT !.pc = "done", !.item = n,
                           !.result = validate(tree, n, val.py)]
    /\ UNCHANGED <<tree, notValidate>>

ValidateNext ==
    \/ ValAddItem
    \/ ValValidate

InitValidate ==
    /\ packages = [NoPackages EXCEPT ![0] = "opened"]
    /\ bound = 0
    /\ raw = NoFlags
    /\ args = parse_arguments(NoFlags)
    /\ main = [MainInit EXCEPT !.pc = "enter_console", !.package_id = 0,
                    !.package_created = TRUE, !.package_opened = TRUE]
    /\ calls = <<>>
    /\ stack = <<>>
    /\ console = Idle
    /\ val \in [pc : {"ready"}, py : {2, 3}, item : {0}, result : {PyNone}]
    /\ batch = Idle
    /\ ls = Idle
    /\ find = Idle
    /\ tree = <<Root>>
    /\ cb = Idle
    /\ UnitsIdle

SpecValidate == InitValidate /\ [][ValidateNext]_vars

\* The result the validation of item n should have: a file's own
\* get_validation(), a folder's maximum over its children, OK when empty.
RECURSIVE Expected(_, _)
RECURSIVE ExpectedMax(_, _, _)
ExpectedMax(t, kids, m) ==
    IF kids = <<>> THEN m
    ELSE LET e == Expected(t, Head(kids))
         IN  ExpectedMax(t, Tail(kids), IF e > m THEN e ELSE m)

Expected(t, n) ==
    IF IsFolder(t, n) THEN ExpectedMax(t, Children(t, n), HL_VALIDATES_OK)
    ELSE t[n].validation

\* C5: validate(item) returns the item's validation: for a file its
\* get_validation() result, for a folder the maximum over its subtree
\* under OK < ASSUMED_OK < INCOMPLETE < CORRUPT < CANCELED < ERROR, and OK
\* for an empty folder.
C5_ValidateReturnsMaximum ==
    val.pc = "done" =>
        /\ ~val.result.raised
        /\ val.result.ret = PyInt(Expected(tree, val.item))

\* C6: a folder all of whose descendant files validate as OK or ASSUMED_OK
\* is reported as OK.
C6_AssumedOkKeepsFolderOk ==
    /\ val.pc = "done"
    /\ IsFolder(tree, val.item)
    /\ Expected(tree, val.item) \in {HL_VALIDATES_OK, HL_VALIDATES_ASSUMED_OK}
    => /\ ~val.result.raised
       /\ val.result.shown = PyInt(HL_VALIDATES_OK)

(***************************************************************************)
(* extract_items and validate_items: the batch over the requested paths.   *)
(*                                                                         *)
(* A requested path is "found" (the operation on its item succeeds),       *)
(* "missing" (get_item_by_path returns None) or "fails" (item.extract      *)
(* raises hl.HLError; validate raises).  hlextract imports hllib as hl and *)
(* defines no HLError of its own: reaching an "except HLError:" clause     *)
(* with an exception in flight raises NameError.                           *)
(***************************************************************************)
PathKinds == {"found", "missing", "fails"}

Requested == UNION {[1 .. n -> PathKinds] : n \in 1 .. MaxPaths}

notBatch ==
    <<packages, bound, raw, args, main, calls, stack, console, val, ls,
      find, tree, cb, unitVars>>

\* for item_path in args.<list>: item = get_item_by_path(item_path, ...)
\* A miss is returned as None; nothing is raised, so the except clause
\* with its "not found" message is not entered.
BatchLookup ==
    /\ batch.pc = "lookup"
    /\ batch' = [batch EXCEPT !.pc = "process",
            !.item = IF batch.paths[batch.i] = "missing" THEN "None"
                     ELSE "item",
            !.looked_up = @ \cup {batch.i}]
    /\ UNCHANGED notBatch

BatchAdvance(b) ==
    [b EXCEPT !.i = @ + 1,
              !.pc = IF b.i = Len(b.paths) THEN "returned" ELSE "lookup",
              !.done = @ \cup {b.i}]

\* try: item.extract(args.dest)
\* except HLError: print("Failed to extract ...")
BatchExtract ==
    /\ batch.pc = "process"
    /\ batch.mode = "extract"
    /\ batch' =
        IF batch.item = "None"
        THEN \* None has no extract: AttributeError, then NameError
             [batch EXCEPT !.pc = "raised", !.exception = "NameError"]
        ELSE IF batch.paths[batch.i] = "fails"
        THEN \* hl.HLError, then NameError in the except clause
             [batch EXCEPT !.pc = "raised", !.exception = "NameError"]
        ELSE BatchAdvance(batch)
    /\ UNCHANGED notBatch

\* validate(item): for None neither isinstance test holds and it returns;
\* an exception of validate is not caught.
BatchValidate ==
    /\ batch.pc = "process"
    /\ batch.mode = "validate"
    /\ batch' =
        IF batch.item # "None" /\ batch.paths[batch.i] = "fails"
        THEN [batch EXCEPT !.pc = "raised", !.exception = "TypeError"]
        ELSE BatchAdvance(batch)
    /\ UNCHANGED notBatch

BatchNext ==
    \/ BatchLookup
    \/ BatchExtract
    \/ BatchValidate

InitBatch ==
    /\ packages = [NoPackages EXCEPT ![0] = "opened"]
    /\ bound = 0
    /\ raw \in {[NoFlags EXCEPT !.extract = TRUE],
                [NoFlags EXCEPT !.validate = TRUE]}
    /\ args = parse_arguments(raw)
    /\ main = [MainInit EXCEPT
                    !.pc = IF raw.extract THEN "extract_items"
                           ELSE "validate_items",
                    !.package_id = 0,
                    !.package_created = TRUE, !.package_opened = TRUE]
    /\ calls = <<>>
    /\ stack = <<>>
    /\ console = Idle
    /\ val = Idle
    /\ batch \in [pc : {"lookup"},
                  mode : {IF raw.extract THEN "extract" ELSE "validate"},
                  paths : Requested, i : {1}, item : {"None"},
                  looked_up : {{}}, done : {{}}, reported : {{}},
                  exception : {"None"}]
    /\ ls = Idle
    /\ find = Idle
    /\ tree = Idle
    /\ cb = Idle
    /\ UnitsIdle

SpecBatch == InitBatch /\ [][BatchNext]_vars

\* C8: when the batch has ended, every requested path was processed, and
\* every path that was not found, or whose extraction failed, was reported.
C8_BatchContinuesPastFailures ==
    batch.pc \in {"returned", "raised"} =>
        /\ batch.pc = "returned"
        /\ batch.looked_up = DOMAIN batch.paths
        /\ \A i \in DOMAIN batch.paths :
            \/ batch.paths[i] = "found"
            \/ batch.paths[i] = "fails" /\ batch.mode = "validate"
            \/ i \in batch.reported

(***************************************************************************)
(* find_first / find_next                                                  *)
(*                                                                         *)
(* The search itself is done by the library (hlFolderFindFirst and         *)
(* hlFolderFindNext): every matching item is returned once, in tree order, *)
(* folders and files interleaved in index order, the cursor being the      *)
(* item returned before; HL_FIND_NO_RECURSE keeps it to the folder's own   *)
(* children.  The wrappers turn a null handle into None.                   *)
(***************************************************************************)
NoItem == 0

HL_FIND_ALL == [files |-> TRUE, folders |-> TRUE, no_recurse |-> FALSE]
NO_RECURSE(f) == [f EXCEPT !.no_recurse = TRUE]

RECURSIVE TreeOrder(_, _)
TreeOrder(t, kids) ==
    IF kids = <<>> THEN <<>>
    ELSE <<Head(kids)>>
         \o (IF IsFolder(t, Head(kids))
             THEN TreeOrder(t, Children(t, Head(kids))) ELSE <<>>)
         \o TreeOrder(t, Tail(kids))

Candidates(t, folder, find_type) ==
    IF find_type.no_recurse THEN Children(t, folder)
    ELSE TreeOrder(t, Children(t, folder))

Selected(t, i, find_type) ==
    /\ t[i].match
    /\ IF IsFolder(t, i) THEN find_type.folders ELSE find_type.files

RECURSIVE FirstSelected(_, _, _, _)
FirstSelected(t, c, k, find_type) ==
    IF k > Len(c) THEN NoItem
    ELSE IF Selected(t, c[k], find_type) THEN c[k]
    ELSE FirstSelected(t, c, k + 1, find_type)

hlFolderFindFirst(t, folder, find_type) ==
    FirstSelected(t, Candidates(t, folder, find_type), 1, find_type)

hlFolderFindNext(t, folder, item, find_type) ==
    LET c == Candidates(t, folder, find_type)
    IN  IF \E k \in DOMAIN c : c[k] = item
        THEN FirstSelected(t, c, 1 + (CHOOSE k \in DOMAIN c : c[k] = item),
                           find_type)
        ELSE NoItem

\* HLDirectoryFolder.find_first / find_next:
\* return None if item is None else _hl_directory_instance(item)
find_first(t, folder, find_type) == hlFolderFindFirst(t, folder, find_type)
find_next(t, folder, item, find_type) ==
    hlFolderFindNext(t, folder, item, find_type)

(***************************************************************************)
(* console_ls                                                              *)
(***************************************************************************)
notLs ==
    <<packages, bound, raw, args, main, calls, stack, console, val, batch,
      find, cb, unitVars>>

LsAddItem ==
    /\ ls.pc = "prompt"
    /\ Len(tree) < MaxNodes
    /\ \E parent \in Items : \E type \in {"Folder", "File"} :
       \E match \in BOOLEAN :
        /\ IsFolder(tree, parent)
        /\ tree' = AddItem(tree, parent, type, HL_VALIDATES_OK, match)
    /\ UNCHANGED <<ls, notLs>>

CountOf(t, kids, type) ==
    Cardinality({k \in DOMAIN kids : t[kids[k]].type = type})

\* 'ls' without a pattern: every child of the current folder is counted.
LsAll ==
    /\ ls.pc = "prompt"
    /\ \E item \in Items :
        /\ IsFolder(tree, item)
        /\ ls' = [ls EXCEPT !.pc = "done", !.item = item, !.pattern = FALSE,
                    !.folder_count = CountOf(tree, Children(tree, item), "Folder"),
                    !.file_count = CountOf(tree, Children(tree, item), "File")]
    /\ UNCHANGED <<tree, notLs>>

\* 'ls <pattern>': sub_item = item.find_first(pattern, find)
LsFindFirst ==
    /\ ls.pc = "prompt"
    /\ \E item \in Items :
        /\ IsFolder(tree, item)
        /\ ls' = [ls EXCEPT !.pc = "loop", !.item = item, !.pattern = TRUE,
                    !.sub_item = find_first(tree, item, NO_RECURSE(HL_FIND_ALL))]
    /\ UNCHANGED <<tree, notLs>>

\* One turn of "while sub_item is not None:".  In the folder branch a
\* find_next that returns None puts the previous item back.
LsLoop ==
    /\ ls.pc = "loop"
    /\ ls.folder_count + ls.file_count < MaxIterations
    /\ LET next == find_next(tree, ls.item, ls.sub_item,
                             NO_RECURSE(HL_FIND_ALL))
       IN  ls' =
            IF ls.sub_item = NoItem THEN [ls EXCEPT !.pc = "done"]
            ELSE IF IsFolder(tree, ls.sub_item)
            THEN [ls EXCEPT !.folder_count = @ + 1,
                            !.sub_item = IF next = NoItem THEN ls.sub_item
                                         ELSE next]
            ELSE [ls EXCEPT !.file_count = @ + 1, !.sub_item = next]
    /\ UNCHANGED <<tree, notLs>>

LsNext ==
    \/ LsAddItem
    \/ LsAll
    \/ LsFindFirst
    \/ LsLoop

InitTreeCommand ==
    /\ packages = [NoPackages EXCEPT ![0] = "opened"]
    /\ bound = 0
    /\ raw = NoFlags
    /\ args = parse_arguments(NoFlags)
    /\ main = [MainInit EXCEPT !.pc = "enter_console", !.package_id = 0,
                    !.package_created = TRUE, !.package_opened = TRUE]
    /\ calls = <<>>
    /\ stack = <<>>
    /\ console = Idle
    /\ val = Idle
    /\ batch = Idle
    /\ tree = <<Root>>
    /\ cb = Idle

InitLs ==
    /\ InitTreeCommand
    /\ ls = [pc |-> "prompt", item |-> NoItem, pattern |-> FALSE,
             sub_item |-> NoItem, folder_count |-> 0, file_count |-> 0]
    /\ find = Idle
    /\ UnitsIdle

SpecLs == InitLs /\ [][LsNext]_vars

MatchingChildren(t, folder, type) ==
    {i \in DOMAIN t : t[i].parent = folder /\ t[i].match /\ t[i].type = type}

\* C9: console_ls with a pattern counts each matching child of the folder
\* exactly once and then ends: the counters never pass the number of
\* matching folders and files, and equal them when the loop has ended.
C9_LsCountsEachMatchOnce ==
    ls.pc \in {"loop", "done"} /\ ls.pattern =>
        LET folders == Cardinality(MatchingChildren(tree, ls.item, "Folder"))
            files == Cardinality(MatchingChildren(tree, ls.item, "File"))
        IN  /\ ls.folder_count <= folders
            /\ ls.file_count <= files
            /\ ls.pc = "done" =>
                    ls.folder_count = folders /\ ls.file_count = files

(***************************************************************************)
(* console_find                                                            *)
(***************************************************************************)
notFind ==
    <<packages, bound, raw, args, main, calls, stack, console, val, batch,
      ls, cb, unitVars>>

FindAddItem ==
    /\ find.pc = "prompt"
    /\ Len(tree) < MaxNodes
    /\ \E parent \in Items : \E type \in {"Folder", "File"} :
       \E match \in BOOLEAN :
        /\ IsFolder(tree, parent)
        /\ tree' = AddItem(tree, parent, type, HL_VALIDATES_OK, match)
    /\ UNCHANGED <<find, notFind>>

\* 'find' without an argument returns at once.
FindNoPattern ==
    /\ find.pc = "prompt"
    /\ find' = [find EXCEPT !.pc = "no_pattern"]
    /\ UNCHANGED <<tree, notFind>>

\* sub_item = item.find_first(pattern, HL_FIND_ALL); item_count = 0
FindFirst ==
    /\ find.pc = "prompt"
    /\ \E item \in Items :
        /\ IsFolder(tree, item)
        /\ find' = [find EXCEPT !.pc = "loop", !.item = item,
                        !.sub_item = find_first(tree, item, HL_FIND_ALL)]
    /\ UNCHANGED <<tree, notFind>>

\* Variant: find_next is given the searched folder as its cursor.
FindLoop_Restart ==
    /\ find.pc = "loop"
    /\ find.item_count < MaxIterations
    /\ find' =
        IF find.sub_item = NoItem THEN [find EXCEPT !.pc = "done"]
        ELSE [find EXCEPT !.item_count = @ + 1,
                !.found = Append(@, find.sub_item),
                !.sub_item = find_next(tree, find.item, find.item,
                                       HL_FIND_ALL)]
    /\ UNCHANGED <<tree, notFind>>

\* One turn of "while sub_item is not None:": count the item, print it,
\* sub_item = item.find_next(sub_item, pattern, HL_FIND_ALL)
FindLoop ==
    /\ find.pc = "loop"
    /\ find.item_count < MaxIterations
    /\ find' =
        IF find.sub_item = NoItem THEN [find EXCEPT !.pc = "done"]
        ELSE [find EXCEPT !.item_count = @ + 1,
                !.found = Append(@, find.sub_item),
                !.sub_item = find_next(tree, find.item, find.sub_item,
                                       HL_FIND_ALL)]
    /\ UNCHANGED <<tree, notFind>>

FindNext ==
    \/ FindAddItem
    \/ FindNoPattern
    \/ FindFirst
    \/ FindLoop

InitFind ==
    /\ InitTreeCommand
    /\ UnitsIdle
    /\ ls = Idle
    /\ find = [pc |-> "prompt", item |-> NoItem, sub_item |-> NoItem,
               item_count |-> 0, found |-> <<>>]

SpecFind == InitFind /\ [][FindNext]_vars

RECURSIVE Below(_, _, _)
Below(t, i, folder) ==
    /\ i # 0
    /\ t[i].parent # 0
    /\ \/ t[i].parent = folder
       \/ Below(t, t[i].parent, folder)

MatchingBelow(t, folder) ==
    {i \in DOMAIN t : t[i].match /\ Below(t, i, folder)}

\* C10: console_find reports each matching item below the folder exactly
\* once: the items printed so far are distinct matching items, the next
\* one is a matching item not yet printed, and when the loop has ended
\* every matching item was printed and item_count is their number.
C10_FindVisitsEachMatchOnce ==
    find.pc \in {"loop", "done"} =>
        LET matches == MatchingBelow(tree, find.item)
            seen == {find.found[k] : k \in DOMAIN find.found}
        IN  /\ seen \subseteq matches
            /\ Cardinality(seen) = Len(find.found)
            /\ find.item_count = Len(find.found)
            /\ find.pc = "loop" /\ find.sub_item # NoItem =>
                    find.sub_item \in matches \ seen
            /\ find.pc = "done" =>
                    seen = matches /\ find.item_count = Cardinality(matches)

\* The search ended after it reported a folder and a file inside it.
C10_Witness ==
    /\ find.pc = "done"
    /\ find.item_count >= 2
    /\ \E a \in DOMAIN find.found : \E b \in DOMAIN find.found :
        /\ a < b
        /\ IsFolder(tree, find.found[a])
        /\ IsFile(tree, find.found[b])
        /\ tree[find.found[b]].parent = find.found[a]
    /\ \E i \in Items : ~tree[i].match /\ Below(tree, i, find.item)

(***************************************************************************)
(* The progress wrappers installed by set_value.                           *)
(*                                                                         *)
(* The engine calls the registered wrapper with the item's handle and a    *)
(* pointer to its cancel flag.  The wrapper builds the item instance       *)
(* (HLError when the handle is null or of no type) and calls the user's    *)
(* callback, which returns, raises HLCancel or raises something else; an   *)
(* exception that leaves the wrapper is dropped by ctypes.                 *)
(***************************************************************************)
ProgressOptions ==
    {"HL_PROC_EXTRACT_FILE_PROGRESS", "HL_PROC_VALIDATE_FILE_PROGRESS",
     "HL_PROC_DEFRAGMENT_PROGRESS", "HL_PROC_DEFRAGMENT_PROGRESS_EX"}

Outcomes == {"returns", "HLCancel", "other"}

\* try: callback(_hl_directory_instance(handle), ...)
\* except HLCancel: cancel[0] = True
TryCallback(handle_ok, outcome, cancel) ==
    [called |-> handle_ok,
     cancel |-> IF handle_ok /\ outcome = "HLCancel" THEN TRUE ELSE cancel]

\* wrapper of _set_proc_extract_file_progress
extract_file_progress(handle_ok, outcome, cancel) ==
    TryCallback(handle_ok, outcome, cancel)

\* wrapper of _set_proc_validate_file_progress
validate_file_progress(handle_ok, outcome, cancel) ==
    TryCallback(handle_ok, outcome, cancel)

\* wrapper of _set_proc_defragment_progress
defragment_progress(handle_ok, outcome, cancel) ==
    TryCallback(handle_ok, outcome, cancel)

\* Variant: the wrapper assigns the flag on every call.
defragment_progress_ex_Assigns(handle_ok, outcome, cancel) ==
    [called |-> handle_ok, cancel |-> handle_ok /\ outcome = "HLCancel"]

\* wrapper of _set_proc_defragment_progress_ex
defragment_progress_ex(handle_ok, outcome, cancel) ==
    TryCallback(handle_ok, outcome, cancel)

Wrapper(option, handle_ok, outcome, cancel) ==
    CASE option = "HL_PROC_EXTRACT_FILE_PROGRESS" ->
            extract_file_progress(handle_ok, outcome, cancel)
      [] option = "HL_PROC_VALIDATE_FILE_PROGRESS" ->
            validate_file_progress(handle_ok, outcome, cancel)
      [] option = "HL_PROC_DEFRAGMENT_PROGRESS" ->
            defragment_progress(handle_ok, outcome, cancel)
      [] option = "HL_PROC_DEFRAGMENT_PROGRESS_EX" ->
            defragment_progress_ex(handle_ok, outcome, cancel)

notProgress ==
    <<packages, bound, raw, args, main, calls, stack, console, val, batch,
      ls, find, tree, unitVars>>

\* set_value(option, callback): the option's wrapper is registered.
ProgressSetValue ==
    /\ \E option \in ProgressOptions \ cb.registered :
        cb' = [cb EXCEPT !.registered = @ \cup {option}, !.pc = "set"]
    /\ UNCHANGED notProgress

\* The engine reports progress through a registered wrapper.
ProgressCall ==
    /\ \E option \in cb.registered : \E before \in BOOLEAN :
       \E handle_ok \in BOOLEAN : \E outcome \in Outcomes :
        LET r == Wrapper(option, handle_ok, outcome, before)
        IN  cb' = [cb EXCEPT !.pc = "returned", !.option = option,
                        !.before = before, !.handle_ok = handle_ok,
                        !.outcome = IF r.called THEN outcome ELSE "not called",
                        !.cancel = r.cancel]
    /\ UNCHANGED notProgress

ProgressNext ==
    \/ ProgressSetValue
    \/ ProgressCall

InitProgress ==
    /\ packages = NoPackages
    /\ bound = NoPackage
    /\ raw = NoFlags
    /\ args = parse_arguments(NoFlags)
    /\ main = [MainInit EXCEPT !.pc = "set_options"]
    /\ calls = <<>>
    /\ stack = <<>>
    /\ console = Idle
    /\ val = Idle
    /\ batch = Idle
    /\ ls = Idle
    /\ find = Idle
    /\ tree = Idle
    /\ UnitsIdle
    /\ cb = [pc |-> "set", registered |-> {}, option |-> "None",
             before |-> FALSE, handle_ok |-> FALSE, outcome |-> "None",
             cancel |-> FALSE]

SpecProgress == InitProgress /\ [][ProgressNext]_vars

\* C7: after a progress wrapper has run, the engine's cancel flag is true
\* if the user callback raised HLCancel, and is what it was before the
\* call otherwise (the callback returned, raised something else or was
\* not called); a flag that was set stays set.
C7_CancelSetOnlyByHLCancel ==
    cb.pc = "returned" =>
        /\ cb.outcome = "HLCancel" => cb.cancel
        /\ cb.outcome # "HLCancel" => cb.cancel = cb.before
        /\ cb.before => cb.cancel

\* A wrapper was called with the flag already set and its callback
\* returned normally.
C7_Witness ==
    /\ cb.pc = "returned"
    /\ cb.option = "HL_PROC_DEFRAGMENT_PROGRESS_EX"
    /\ cb.before
    /\ cb.outcome = "returns"
    /\ cb.cancel

(***************************************************************************)
(* Package.get_package_type_from_file                                      *)
(*                                                                         *)
(* The file is given by what the library would say of its name (name) and  *)
(* of its first bytes (magic) and by its length.  f.read(8) returns the    *)
(* whole file when it holds fewer than 8 bytes; what it returns (a str     *)
(* under Python 2, a bytes object under Python 3) is passed to the library *)
(* as it is.                                                               *)
(***************************************************************************)
MaxFileLen == 9

HL_DEFAULT_PACKAGE_TEST_BUFFER_SIZE == 8

BufferKinds == {"bytes", "bytearray", "other"}

\* _get_const_compatible_buffer(buf, n), buf given by its length and kind.
\* The message of the HLError for a short buffer is formatted from len_buf,
\* a name that is bound nowhere: NameError is raised in its place.
_get_const_compatible_buffer(len_buf, kind, n) ==
    IF len_buf < n
    THEN [raised |-> TRUE, exception |-> "NameError", c_buf |-> "none"]
    ELSE [raised |-> FALSE, exception |-> None,
          c_buf |-> CASE kind = "bytes" -> "buf"
                      [] kind = "bytearray" -> "from_buffer"
                      [] OTHER -> "from_buffer_copy"]

\* Package.get_package_type_from_memory(buf, n); detected is the answer
\* of hlGetPackageTypeFromMemory for these bytes.
get_package_type_from_memory(len_buf, kind, n, detected) ==
    LET c == _get_const_compatible_buffer(len_buf, kind, n)
    IN  IF c.raised
        THEN [raised |-> TRUE, exception |-> c.exception, ret |-> None,
              lib_calls |-> 0]
        ELSE [raised |-> FALSE, exception |-> None, ret |-> detected,
              lib_calls |-> 1]

notDetect ==
    <<packages, bound, raw, args, main, calls, stack, console, val, batch,
      ls, find, tree, cb, look, typ, opt, attr, io>>

\* Variant: the file is read whatever the name says.
DetectName_AlwaysReads ==
    /\ det.pc = "name"
    /\ det' = [det EXCEPT !.package_type = det.name, !.pc = "read"]
    /\ UNCHANGED notDetect

\* package_type = Package.get_package_type_from_name(path)
\* if package_type == HLPackageType.HL_PACKAGE_NONE: ...
DetectName ==
    /\ det.pc = "name"
    /\ det' = [det EXCEPT !.package_type = det.name,
                    !.pc = IF det.name = "NONE" THEN "read" ELSE "returned"]
    /\ UNCHANGED notDetect

\* with open(path, "rb") as f: buf = f.read(8)
DetectRead ==
    /\ det.pc = "read"
    /\ det' = [det EXCEPT !.pc = "memory", !.reads = @ + 1,
                    !.requested = HL_DEFAULT_PACKAGE_TEST_BUFFER_SIZE,
                    !.len_buf =
                        IF det.file_len < HL_DEFAULT_PACKAGE_TEST_BUFFER_SIZE
                        THEN det.file_len
                        ELSE HL_DEFAULT_PACKAGE_TEST_BUFFER_SIZE]
    /\ UNCHANGED notDetect

\* package_type = Package.get_package_type_from_memory(buf, 8)
DetectMemory ==
    /\ det.pc = "memory"
    /\ LET r == get_package_type_from_memory(det.len_buf, "bytes",
                    HL_DEFAULT_PACKAGE_TEST_BUFFER_SIZE, det.magic)
       IN  det' = IF r.raised
                  THEN [det EXCEPT !.pc = "raised", !.exception = r.exception]
                  ELSE [det EXCEPT !.pc = "returned", !.package_type = r.ret,
                                   !.lib_calls = @ + r.lib_calls]
    /\ UNCHANGED notDetect

DetectNext ==
    \/ DetectName
    \/ DetectRead
    \/ DetectMemory

InitDetect ==
    /\ packages = NoPackages
    /\ bound = NoPackage
    /\ raw = NoFlags
    /\ args = parse_arguments(NoFlags)
    /\ main = [MainInit EXCEPT !.pc = "get_package_type"]
    /\ calls = <<>>
    /\ stack = <<>>
    /\ console = Idle
    /\ val = Idle
    /\ batch = Idle
    /\ ls = Idle
    /\ find = Idle
    /\ tree = Idle
    /\ cb = Idle
    /\ look = Idle
    /\ typ = Idle
    /\ opt = Idle
    /\ attr = Idle
    /\ io = Idle
    /\ det \in [pc : {"name"}, name : PackageTypes,
                magic : PackageTypes, file_len : 0 .. MaxFileLen,
                package_type : {None}, reads : {0}, requested : {0},
                len_buf : {0}, lib_calls : {0}, exception : {None}]

SpecDetect == InitDetect /\ [][DetectNext]_vars

DetectEnded == det.pc \in {"returned", "raised"}

\* C11: the name decides first: when it gives a type other than
\* HL_PACKAGE_NONE that type is returned and the file is not read; the file
\* is read only when the name gives HL_PACKAGE_NONE, once and for 8 bytes,
\* and what is then returned is the result of the detection by prefix.
C11_NameThenPrefix ==
    DetectEnded =>
        /\ det.name # "NONE" =>
            /\ det.pc = "returned"
            /\ det.package_type = det.name
            /\ det.reads = 0
            /\ det.lib_calls = 0
        /\ det.reads > 0 =>
            /\ det.name = "NONE"
            /\ det.reads = 1
            /\ det.requested = HL_DEFAULT_PACKAGE_TEST_BUFFER_SIZE
        /\ det.name = "NONE" /\ det.pc = "returned" =>
            /\ det.reads = 1
            /\ det.lib_calls = 1
            /\ det.package_type = det.magic

\* The name gave nothing, the file was read and its prefix gave a type.
C11_Witness ==
    /\ det.pc = "returned"
    /\ det.name = "NONE"
    /\ det.reads = 1
    /\ det.magic = "GCF"
    /\ det.package_type = "GCF"

\* C12: detection never throws: for every file, of any length, a package
\* type is returned, and it is HL_PACKAGE_NONE when neither the name nor
\* the prefix gives a type.
C12_DetectionNeverThrows ==
    DetectEnded =>
        /\ det.pc = "returned"
        /\ det.package_type \in PackageTypes
        /\ det.name = "NONE" /\ det.magic = "NONE" =>
            det.package_type = "NONE"

(***************************************************************************)
(* The lookups of HLDirectoryFolder: get_item_by_name, get_item_by_path,   *)
(* find_first and find_next.                                               *)
(*                                                                         *)
(* Each passes its arguments to the library and wraps the handle it gets   *)
(* back.  The library's answer is an input here: no item (a null handle,   *)
(* which ctypes hands over as None) or an item of the tree below the       *)
(* folder searched.                                                        *)
(***************************************************************************)
\* _hl_directory_instance(handle): HLError for an empty handle, else the
\* wrapper class that hlItemGetType selects.
_hl_directory_instance(t, handle) ==
    IF handle = NoItem THEN [kind |-> "HLError", handle |-> NoItem]
    ELSE IF IsFolder(t, handle)
    THEN [kind |-> "HLDirectoryFolder", handle |-> handle]
    ELSE [kind |-> "HLDirectoryFile", handle |-> handle]

\* Variant: the handle is wrapped without the test for None.
ItemOrNone_NoTest(t, item) == _hl_directory_instance(t, item)

\* return None if item is None else _hl_directory_instance(item)
ItemOrNone(t, item) ==
    IF item = NoItem THEN [kind |-> "None", handle |-> NoItem]
    ELSE _hl_directory_instance(t, item)

notLookup ==
    <<packages, bound, raw, args, main, calls, stack, console, val, batch,
      ls, find, cb, det, typ, opt, attr, io>>

LookAddItem ==
    /\ Len(tree) < MaxNodes
    /\ \E parent \in Items : \E type \in {"Folder", "File"} :
        /\ IsFolder(tree, parent)
        /\ tree' = AddItem(tree, parent, type, HL_VALIDATES_OK, FALSE)
    /\ UNCHANGED <<look, notLookup>>

\* What the library may answer for a search in folder.
Answers(folder) == {NoItem} \cup {i \in Items : Below(tree, i, folder)}

Lookup(fn) ==
    /\ \E folder \in Items : \E item \in Answers(folder) :
        /\ IsFolder(tree, folder)
        /\ look' = [pc |-> "returned", fn |-> fn, folder |-> folder,
                    handle |-> item, result |-> ItemOrNone(tree, item)]
    /\ UNCHANGED <<tree, notLookup>>

\* HLDirectoryFolder.get_item_by_name(name, find_type)
LookGetItemByName == Lookup("get_item_by_name")

\* HLDirectoryFolder.get_item_by_path(path, find_type)
LookGetItemByPath == Lookup("get_item_by_path")

\* HLDirectoryFolder.find_first(pattern, find_type)
LookFindFirst == Lookup("find_first")

\* HLDirectoryFolder.find_next(item, pattern, find_type)
LookFindNext == Lookup("find_next")

LookupNext ==
    \/ LookAddItem
    \/ LookGetItemByName
    \/ LookGetItemByPath
    \/ LookFindFirst
    \/ LookFindNext

InitLookup ==
    /\ InitTreeCommand
    /\ ls = Idle
    /\ find = Idle
    /\ det = Idle
    /\ typ = Idle
    /\ opt = Idle
    /\ attr = Idle
    /\ io = Idle
    /\ look = [pc |-> "prompt", fn |-> None, folder |-> NoItem,
               handle |-> NoItem, result |-> [kind |-> "None",
                                              handle |-> NoItem]]

SpecLookup == InitLookup /\ [][LookupNext]_vars

MaxReads == 6

notType ==
    <<packages, bound, raw, args, main, calls, stack, console, val, batch,
      ls, find, tree, cb, det, look, opt, attr, io>>

\* The checks before the try statement: no argument, or no such file.
TypeLookup ==
    /\ typ.pc = "prompt"
    /\ \E r \in {"no argument", "not found", "found"} :
        typ' = [typ EXCEPT !.pc = IF r = "found" THEN "create_stream"
                                  ELSE "returned"]
    /\ UNCHANGED notType

\* stream = sub_item.create_stream(); stream_created = True
TypeCreateStream ==
    /\ typ.pc = "create_stream"
    /\ \/ typ' = [typ EXCEPT !.pc = "open", !.stream_created = TRUE,
                        !.stream = "created",
                        !.events = Append(@, "create_stream")]
       \/ typ' = [typ EXCEPT !.pc = "except"]
    /\ UNCHANGED notType

\* stream.open(HL_MODE_READ); stream_opened = True
TypeOpen ==
    /\ typ.pc = "open"
    /\ \/ typ' = [typ EXCEPT !.pc = "read", !.stream_opened = TRUE,
                        !.stream = "opened", !.events = Append(@, "open")]
       \/ typ' = [typ EXCEPT !.pc = "except",
                        !.events = Append(@, "open failed")]
    /\ UNCHANGED notType

\* One turn of "while True:": c = stream.read_char().decode("utf-8"),
\* printed when it is printable; except hl.HLError: break
TypeRead ==
    /\ typ.pc = "read"
    /\ \/ /\ typ.reads < MaxReads
          /\ \E printable \in BOOLEAN :
               typ' = [typ EXCEPT !.reads = @ + 1,
                        !.events = Append(@, "read_char"),
                        !.printed = @ + (IF printable THEN 1 ELSE 0)]
       \/ typ' = [typ EXCEPT !.pc = "finally_close",
                        !.events = Append(@, "read_char failed")]
       \/ /\ typ.reads < MaxReads
          /\ typ' = [typ EXCEPT !.pc = "finally_close", !.reads = @ + 1,
                        !.events = Append(@, "read_char"),
                        !.exception = "UnicodeDecodeError"]
    /\ UNCHANGED notType

\* except hl.HLError as ex: print(ex)
TypeExcept ==
    /\ typ.pc = "except"
    /\ typ' = [typ EXCEPT !.pc = "finally_close", !.caught = TRUE]
    /\ UNCHANGED notType

\* finally: if stream_opened: stream.close()
TypeFinallyClose ==
    /\ typ.pc = "finally_close"
    /\ typ' = IF typ.stream_opened
              THEN [typ EXCEPT !.pc = "finally_release", !.stream = "closed",
                               !.events = Append(@, "close")]
              ELSE [typ EXCEPT !.pc = "finally_release"]
    /\ UNCHANGED notType

\* Variant: the stream is released only when it was opened.
TypeFinallyRelease_IfOpened ==
    /\ typ.pc = "finally_release"
    /\ LET next == IF typ.exception = None THEN "returned" ELSE "raised"
       IN  typ' = IF typ.stream_opened
                  THEN [typ EXCEPT !.pc = next, !.stream = "released",
                                   !.events = Append(@, "release_stream")]
                  ELSE [typ EXCEPT !.pc = next]
    /\ UNCHANGED notType

\* finally: if stream_created: sub_item.release_stream(stream); then the
\* "Done." message, or the exception that was in flight goes on.
TypeFinallyRelease ==
    /\ typ.pc = "finally_release"
    /\ LET next == IF typ.exception = None THEN "returned" ELSE "raised"
       IN  typ' = IF typ.stream_created
                  THEN [typ EXCEPT !.pc = next, !.stream = "released",
                                   !.events = Append(@, "release_stream")]
                  ELSE [typ EXCEPT !.pc = next]
    /\ UNCHANGED notType

TypeNext ==
    \/ TypeLookup
    \/ TypeCreateStream
    \/ TypeOpen
    \/ TypeRead
    \/ TypeExcept
    \/ TypeFinallyClose
    \/ TypeFinallyRelease

InitType ==
    /\ InitTreeCommand
    /\ ls = Idle
    /\ find = Idle
    /\ det = Idle
    /\ look = Idle
    /\ opt = Idle
    /\ attr = Idle
    /\ io = Idle
    /\ typ = [pc |-> "prompt", stream_created |-> FALSE,
              stream_opened |-> FALSE, stream |-> "none", events |-> <<>>,
              reads |-> 0, printed |-> 0, caught |-> FALSE,
              exception |-> None]

SpecType == InitType /\ [][TypeNext]_vars

EventsOf(e) == {i \in DOMAIN typ.events : typ.events[i] = e}

\* C16: when console_type has ended, by return or by an exception, a
\* stream that was created has been released, once, and is the last thing
\* done; it has been closed, once, iff it was opened; close precedes
\* release; and no read_char follows the first failed read_char.
C16_StreamReleasedOnEveryExit ==
    typ.pc \in {"returned", "raised"} =>
        /\ Cardinality(EventsOf("release_stream")) =
                (IF EventsOf("create_stream") # {} THEN 1 ELSE 0)
        /\ Cardinality(EventsOf("close")) =
                (IF EventsOf("open") # {} THEN 1 ELSE 0)
        /\ \A i \in EventsOf("close") : \A j \in EventsOf("release_stream") :
                i < j
        /\ \A i \in EventsOf("read_char failed") :
                /\ Cardinality(EventsOf("read_char failed")) = 1
                /\ \A j \in EventsOf("read_char") : j < i
        /\ typ.stream \in {"none", "released"}

\* The stream was created but could not be opened: the HLError was
\* caught and the stream released without a close.
C16_Witness ==
    /\ typ.pc = "returned"
    /\ typ.caught
    /\ typ.stream_created
    /\ ~typ.stream_opened
    /\ typ.events = <<"create_stream", "open failed", "release_stream">>

(***************************************************************************)
(* get_value and set_value: the dispatch on (option, hl_type).             *)
(*                                                                         *)
(* opt.lib_calls counts the calls of the library, opt.procs is the set of  *)
(* options whose callback is kept in a module global (_proc_open, ...),    *)
(* opt.n the number of get_value and set_value calls made so far.          *)
(***************************************************************************)
MaxCalls == 2

HLOption ==
    {"HL_VERSION", "HL_ERROR", "HL_ERROR_SYSTEM",
     "HL_ERROR_SHORT_FORMATED", "HL_ERROR_LONG_FORMATED", "HL_PROC_OPEN",
     "HL_PROC_CLOSE", "HL_PROC_READ", "HL_PROC_WRITE", "HL_PROC_SEEK",
     "HL_PROC_TELL", "HL_PROC_SIZE", "HL_PROC_EXTRACT_ITEM_START",
     "HL_PROC_EXTRACT_ITEM_END", "HL_PROC_EXTRACT_FILE_PROGRESS",
     "HL_PROC_VALIDATE_FILE_PROGRESS", "HL_OVERWRITE_FILES",
     "HL_PACKAGE_BOUND", "HL_PACKAGE_ID", "HL_PACKAGE_SIZE",
     "HL_PACKAGE_TOTAL_ALLOCATIONS", "HL_PACKAGE_TOTAL_MEMORY_ALLOCATED",
     "HL_PACKAGE_TOTAL_MEMORY_USED", "HL_READ_ENCRYPTED",
     "HL_FORCE_DEFRAGMENT", "HL_PROC_DEFRAGMENT_PROGRESS",
     "HL_PROC_DEFRAGMENT_PROGRESS_EX", "HL_PROC_SEEK_EX",
     "HL_PROC_TELL_EX", "HL_PROC_SIZE_EX"}

\* The hl_type arguments: the ctypes types of the module, or None.
HLTypes ==
    {"hlBool", "hlInt", "hlUInt", "hlLongLong", "hlULongLong", "hlFloat",
     "hlString", "hlVoidPtr", "None"}

\* The hl_types under which _getters holds a key for option.
GetterTypes(option) ==
    CASE option \in {"HL_VERSION", "HL_ERROR_SYSTEM"} ->
            {"hlUInt", "hlString", "None"}
      [] option \in {"HL_ERROR", "HL_ERROR_SHORT_FORMATED",
                       "HL_ERROR_LONG_FORMATED"} ->
            {"hlString", "None"}
      [] option \in {"HL_PROC_OPEN", "HL_PROC_CLOSE", "HL_PROC_READ",
                       "HL_PROC_WRITE", "HL_PROC_SEEK", "HL_PROC_TELL",
                       "HL_PROC_SIZE", "HL_PROC_EXTRACT_ITEM_START",
                       "HL_PROC_EXTRACT_ITEM_END",
                       "HL_PROC_EXTRACT_FILE_PROGRESS",
                       "HL_PROC_VALIDATE_FILE_PROGRESS",
                       "HL_PROC_DEFRAGMENT_PROGRESS",
                       "HL_PROC_DEFRAGMENT_PROGRESS_EX",
                       "HL_PROC_SEEK_EX", "HL_PROC_TELL_EX",
                       "HL_PROC_SIZE_EX"} ->
            {"hlVoidPtr", "None"}
      [] option \in {"HL_OVERWRITE_FILES", "HL_PACKAGE_BOUND",
                       "HL_READ_ENCRYPTED", "HL_FORCE_DEFRAGMENT"} ->
            {"hlBool", "None"}
      [] option \in {"HL_PACKAGE_ID", "HL_PACKAGE_SIZE",
                       "HL_PACKAGE_TOTAL_ALLOCATIONS",
                       "HL_PACKAGE_TOTAL_MEMORY_ALLOCATED",
                       "HL_PACKAGE_TOTAL_MEMORY_USED"} ->
            {"hlUInt", "hlULongLong", "None"}
      [] OTHER -> {}

_getters == {k \in HLOption \X HLTypes : k[2] \in GetterTypes(k[1])}

BooleanOptions ==
    {"HL_OVERWRITE_FILES", "HL_READ_ENCRYPTED", "HL_FORCE_DEFRAGMENT"}

\* The options of callbacks: each has a _set_proc_<option> function.
ProcOptions ==
    {"HL_PROC_OPEN", "HL_PROC_CLOSE", "HL_PROC_READ", "HL_PROC_WRITE",
     "HL_PROC_SEEK", "HL_PROC_SEEK_EX", "HL_PROC_TELL", "HL_PROC_TELL_EX",
     "HL_PROC_SIZE", "HL_PROC_SIZE_EX", "HL_PROC_EXTRACT_ITEM_START",
     "HL_PROC_EXTRACT_ITEM_END", "HL_PROC_EXTRACT_FILE_PROGRESS",
     "HL_PROC_VALIDATE_FILE_PROGRESS", "HL_PROC_DEFRAGMENT_PROGRESS",
     "HL_PROC_DEFRAGMENT_PROGRESS_EX"}

\* The hl_types under which _setters holds a key for option.
SetterTypes(option) ==
    CASE option \in BooleanOptions -> {"hlBool", "None"}
      [] option \in ProcOptions -> {"hlVoidPtr", "None"}
      [] OTHER -> {}

_setters == {k \in HLOption \X HLTypes : k[2] \in SetterTypes(k[1])}

\* get_value(option, hl_type): function = _getters.get(key); HLError when
\* there is none, else the getter is called.
get_value(option, hl_type) ==
    IF <<option, hl_type>> \notin _getters THEN "HLError" ELSE "_get"

\* Variant: a key that is missing is looked up again without its type.
set_value_AnyType(option, hl_type) ==
    IF <<option, hl_type>> \notin _setters /\ <<option, "None">> \notin _setters
    THEN "HLError"
    ELSE IF option \in BooleanOptions THEN "hlSetBoolean" ELSE "_set_proc"

\* set_value(option, value, hl_type): function = _setters.get(key);
\* HLError when there is none, else the setter is called.
set_value(option, hl_type) ==
    IF <<option, hl_type>> \notin _setters THEN "HLError"
    ELSE IF option \in BooleanOptions THEN "hlSetBoolean" ELSE "_set_proc"

notOptions ==
    <<packages, bound, raw, args, main, calls, stack, console, val, batch,
      ls, find, tree, cb, det, look, typ, attr, io>>

Called(fn, option, hl_type, outcome) ==
    [fn |-> fn, option |-> option, hl_type |-> hl_type, outcome |-> outcome,
     lib_calls |-> opt.lib_calls, procs |-> opt.procs]

\* get_value: a getter that is found calls the library, which gives the
\* value or fails (HLError from _get_value).
OptGetValue ==
    /\ opt.n < MaxCalls
    /\ \E option \in HLOption : \E hl_type \in HLTypes :
        IF get_value(option, hl_type) = "HLError"
        THEN opt' = [opt EXCEPT !.pc = "returned", !.n = @ + 1,
                !.last = Called("get_value", option, hl_type, "HLError")]
        ELSE \E outcome \in {"value", "HLError"} :
                  opt' = [opt EXCEPT !.pc = "returned", !.n = @ + 1,
                    !.lib_calls = @ + 1,
                    !.last = Called("get_value", option, hl_type, outcome)]
    /\ UNCHANGED notOptions

\* set_value: hlSetBoolean, or the _set_proc_<option> function, which
\* keeps the ctypes callback in a module global and calls hlSetVoid.
\* _set_proc_close reads a name that is bound nowhere (wrapper).
OptSetValue ==
    /\ opt.n < MaxCalls
    /\ \E option \in HLOption : \E hl_type \in HLTypes :
        LET f == set_value(option, hl_type)
        IN  IF f = "HLError"
            THEN opt' = [opt EXCEPT !.pc = "returned", !.n = @ + 1,
                    !.last = Called("set_value", option, hl_type, "HLError")]
            ELSE IF option = "HL_PROC_CLOSE"
            THEN opt' = [opt EXCEPT !.pc = "returned", !.n = @ + 1,
                    !.last = Called("set_value", option, hl_type,
                                    "NameError")]
            ELSE opt' = [opt EXCEPT !.pc = "returned", !.n = @ + 1,
                        !.lib_calls = @ + 1,
                        !.procs = IF f = "_set_proc" THEN @ \cup {option}
                                  ELSE @,
                        !.last = Called("set_value", option, hl_type,
                                        "returned")]
    /\ UNCHANGED notOptions

OptionsNext ==
    \/ OptGetValue
    \/ OptSetValue

InitOptions ==
    /\ packages = NoPackages
    /\ bound = NoPackage
    /\ raw = NoFlags
    /\ args = parse_arguments(NoFlags)
    /\ main = [MainInit EXCEPT !.pc = "set_options"]
    /\ calls = <<>>
    /\ stack = <<>>
    /\ console = Idle
    /\ val = Idle
    /\ batch = Idle
    /\ ls = Idle
    /\ find = Idle
    /\ tree = Idle
    /\ cb = Idle
    /\ det = Idle
    /\ look = Idle
    /\ typ = Idle
    /\ attr = Idle
    /\ io = Idle
    /\ opt = [pc |-> "ready", n |-> 0, lib_calls |-> 0, procs |-> {},
              last |-> [fn |-> None, option |-> None, hl_type |-> None,
                        outcome |-> None, lib_calls |-> 0, procs |-> {}]]

SpecOptions == InitOptions /\ [][OptionsNext]_vars

\* The options the library only reports.
ReadOnlyOptions ==
    {"HL_VERSION", "HL_ERROR", "HL_ERROR_SYSTEM", "HL_ERROR_SHORT_FORMATED",
     "HL_ERROR_LONG_FORMATED", "HL_PACKAGE_BOUND", "HL_PACKAGE_ID",
     "HL_PACKAGE_SIZE", "HL_PACKAGE_TOTAL_ALLOCATIONS",
     "HL_PACKAGE_TOTAL_MEMORY_ALLOCATED", "HL_PACKAGE_TOTAL_MEMORY_USED"}

Rejected ==
    /\ opt.last.outcome = "HLError"
    /\ opt.lib_calls = opt.last.lib_calls
    /\ opt.procs = opt.last.procs

\* C17: get_value and set_value raise HLError for every (option, hl_type)
\* that is not a key of their table, with no call of the library and no
\* change of the module's globals; a read-only option cannot be set under
\* any hl_type.
C17_UnknownKeyRejected ==
    opt.pc = "returned" =>
        LET key == <<opt.last.option, opt.last.hl_type>>
        IN  /\ opt.last.fn = "get_value" /\ key \notin _getters => Rejected
            /\ opt.last.fn = "set_value" /\ key \notin _setters => Rejected
            /\ opt.last.fn = "set_value"
                    /\ opt.last.option \in ReadOnlyOptions => Rejected

\* After a callback was registered, an option that can be set was given
\* with a type its table does not hold.
C17_Witness ==
    /\ opt.pc = "returned"
    /\ opt.procs # {}
    /\ opt.last.fn = "set_value"
    /\ opt.last.option = "HL_OVERWRITE_FILES"
    /\ opt.last.hl_type = "hlInt"
    /\ Rejected

(***************************************************************************)
(* HLAttribute.set(value, attribute_type, hexadecimal)                     *)
(*                                                                         *)
(* A value is given by its Python type and, for the numbers, its sign.     *)
(* hllib runs under Python 2 and Python 3 (_encode tests the version).     *)
(* basestring is a builtin of Python 2 only: under Python 3 the test       *)
(* isinstance(value, basestring) raises NameError when it is evaluated.    *)
(* A setter that is called converts the value to its C argument type; for  *)
(* a value of another Python type that conversion may fail                 *)
(* (ctypes.ArgumentError) before the library is entered.                   *)
(***************************************************************************)
HLAttributeType ==
    {"HL_ATTRIBUTE_INVALID", "HL_ATTRIBUTE_BOOLEAN", "HL_ATTRIBUTE_INTEGER",
     "HL_ATTRIBUTE_UNSIGNED_INTEGER", "HL_ATTRIBUTE_FLOAT",
     "HL_ATTRIBUTE_STRING"}

\* The attribute_type arguments: None, a value of HLAttributeType, or a
\* number that is none of them.
AttributeTypeArgs == HLAttributeType \cup {"None", "unknown"}

Values ==
    [kind : {"bool"}, v : {0, 1}] \cup [kind : {"int", "float"}, v : {-1, 0, 1}]
        \cup [kind : {"str", "other"}, v : {0}]

\* The Python types each setter's C argument type takes for certain.
Takes(setter) ==
    CASE setter = "hlAttributeSetBoolean" -> {"bool", "int"}
      [] setter = "hlAttributeSetInteger" -> {"bool", "int"}
      [] setter = "hlAttributeSetUnsignedInteger" -> {"bool", "int"}
      [] setter = "hlAttributeSetFloat" -> {"bool", "int", "float"}
      [] setter = "hlAttributeSetString" -> {"str"}

TypeSetBy(setter) ==
    CASE setter = "hlAttributeSetBoolean" -> "HL_ATTRIBUTE_BOOLEAN"
      [] setter = "hlAttributeSetInteger" -> "HL_ATTRIBUTE_INTEGER"
      [] setter = "hlAttributeSetUnsignedInteger" ->
            "HL_ATTRIBUTE_UNSIGNED_INTEGER"
      [] setter = "hlAttributeSetFloat" -> "HL_ATTRIBUTE_FLOAT"
      [] setter = "hlAttributeSetString" -> "HL_ATTRIBUTE_STRING"

Calls(setter) == [outcome |-> "called", setter |-> setter]
Raises(exception) == [outcome |-> exception, setter |-> None]

\* value < 0: a str or a list compares above every number under Python 2
\* and cannot be compared under Python 3.
Negative(py, value) ==
    IF value.kind \in {"bool", "int", "float"}
    THEN IF value.v < 0 THEN "True" ELSE "False"
    ELSE IF py = 2 THEN "False" ELSE "TypeError"

\* The if / elif chain of HLAttribute.set, in its order.  isinstance(value,
\* int) holds for a bool as well, which the first branch has taken.
set(py, value, attribute_type) ==
    IF \/ attribute_type = "HL_ATTRIBUTE_BOOLEAN"
       \/ attribute_type = "None" /\ value.kind = "bool"
    THEN Calls("hlAttributeSetBoolean")
    ELSE IF \/ attribute_type = "HL_ATTRIBUTE_INTEGER"
            \/ attribute_type = "None" /\ value.kind \in {"bool", "int"}
    THEN Calls("hlAttributeSetInteger")
    ELSE IF attribute_type = "HL_ATTRIBUTE_UNSIGNED_INTEGER"
    THEN CASE Negative(py, value) = "True" -> Raises("HLError")
           [] Negative(py, value) = "False" ->
                Calls("hlAttributeSetUnsignedInteger")
           [] OTHER -> Raises("TypeError")
    ELSE IF \/ attribute_type = "HL_ATTRIBUTE_FLOAT"
            \/ attribute_type = "None" /\ value.kind = "float"
    THEN Calls("hlAttributeSetFloat")
    ELSE IF attribute_type = "HL_ATTRIBUTE_STRING"
    THEN Calls("hlAttributeSetString")
    ELSE IF attribute_type = "None"
    THEN \* isinstance(value, basestring)
         IF py = 3 THEN Raises("NameError")
         ELSE IF value.kind = "str" THEN Calls("hlAttributeSetString")
         ELSE Raises("HLError")
    ELSE \* HL_ATTRIBUTE_INVALID, or no value of HLAttributeType
         Raises("HLError")

notAttribute ==
    <<packages, bound, raw, args, main, calls, stack, console, val, batch,
      ls, find, tree, cb, det, look, typ, opt, io>>

\* attribute.set(value, attribute_type): the setter chosen is called and
\* the library stores the type and the value in the attribute.
AttrSet ==
    /\ attr.pc = "ready"
    /\ LET r == set(attr.py, attr.value, attr.attribute_type)
       IN  IF r.outcome # "called"
           THEN attr' = [attr EXCEPT !.pc = "done", !.outcome = r.outcome]
           ELSE \E converts \in BOOLEAN :
                /\ attr.value.kind \in Takes(r.setter) => converts
                /\ attr' = [attr EXCEPT !.pc = "done",
                        !.selected = r.setter,
                        !.outcome = IF converts THEN "returned"
                                    ELSE "ArgumentError",
                        !.type = IF converts THEN TypeSetBy(r.setter) ELSE @,
                        !.stored = IF converts THEN attr.value ELSE @,
                        !.lib_calls = IF converts THEN 1 ELSE 0]
    /\ UNCHANGED notAttribute

AttributeNext ==
    \/ AttrSet

InitAttribute ==
    /\ packages = NoPackages
    /\ bound = NoPackage
    /\ raw = NoFlags
    /\ args = parse_arguments(NoFlags)
    /\ main = MainInit
    /\ calls = <<>>
    /\ stack = <<>>
    /\ console = Idle
    /\ val = Idle
    /\ batch = Idle
    /\ ls = Idle
    /\ find = Idle
    /\ tree = Idle
    /\ cb = Idle
    /\ det = Idle
    /\ look = Idle
    /\ typ = Idle
    /\ opt = Idle
    /\ io = Idle
    /\ \E py \in {2, 3} : \E before \in HLAttributeType : \E value \in Values :
       \E attribute_type \in AttributeTypeArgs :
        attr = [pc |-> "ready", py |-> py, before |-> before,
                type |-> before, stored |-> [kind |-> "int", v |-> 0],
                value |-> value, attribute_type |-> attribute_type,
                selected |-> None, outcome |-> None, lib_calls |-> 0]

SpecAttribute == InitAttribute /\ [][AttributeNext]_vars

AttrRejected ==
    /\ attr.outcome = "HLError"
    /\ attr.selected = None
    /\ attr.lib_calls = 0
    /\ attr.type = attr.before
    /\ attr.stored = [kind |-> "int", v |-> 0]

\* C18: HLAttribute.set raises HLError and calls no setter, the attribute
\* keeping its type and value, for HL_ATTRIBUTE_UNSIGNED_INTEGER with a
\* negative value, for HL_ATTRIBUTE_INVALID, for a type that is no value
\* of HLAttributeType, and for no type with a value that is not a bool,
\* an int, a float or a string.
C18_SetRejectsBadTypes ==
    attr.pc = "done" =>
        /\ attr.attribute_type = "HL_ATTRIBUTE_UNSIGNED_INTEGER"
                /\ attr.value.kind \in {"int", "float"}
                /\ attr.value.v < 0 => AttrRejected
        /\ attr.attribute_type = "HL_ATTRIBUTE_INVALID" => AttrRejected
        /\ attr.attribute_type = "unknown" => AttrRejected
        /\ attr.attribute_type = "None" /\ attr.value.kind = "other" =>
                AttrRejected

\* C19: without an attribute_type the setter follows the value's type
\* (bool gives BOOLEAN, int INTEGER, float FLOAT, string STRING); with
\* one of BOOLEAN, INTEGER, FLOAT, STRING, or UNSIGNED_INTEGER and a
\* number that is not negative, the setter is the one of that type,
\* whatever the value's type.
C19_TypeDerivedFromValue ==
    attr.pc = "done" =>
        /\ attr.attribute_type = "None" =>
            /\ attr.value.kind = "bool" =>
                    attr.selected = "hlAttributeSetBoolean"
            /\ attr.value.kind = "int" =>
                    attr.selected = "hlAttributeSetInteger"
            /\ attr.value.kind = "float" =>
                    attr.selected = "hlAttributeSetFloat"
            /\ attr.value.kind = "str" =>
                    attr.selected = "hlAttributeSetString"
        /\ \/ attr.attribute_type \in
                    {"HL_ATTRIBUTE_BOOLEAN", "HL_ATTRIBUTE_INTEGER",
                     "HL_ATTRIBUTE_FLOAT", "HL_ATTRIBUTE_STRING"}
           \/ /\ attr.attribute_type = "HL_ATTRIBUTE_UNSIGNED_INTEGER"
              /\ attr.value.kind \in {"bool", "int", "float"}
              /\ attr.value.v >= 0
           => /\ attr.selected # None
              /\ TypeSetBy(attr.selected) = attr.attribute_type

(***************************************************************************)
(* Buffer arguments: HLStream.read, HLStream.write and                     *)
(* Package.get_package_type_from_memory.                                   *)
(*                                                                         *)
(* A buffer is given by its kind and its length: "bytes" cannot be written *)
(* to (str under Python 2, bytes under Python 3), "bytearray" can, "other" *)
(* is a read-only buffer of another type (a memoryview of bytes).          *)
(* (c_byte * n).from_buffer(buf) raises TypeError for a buffer that is not *)
(* writable and ValueError for one that is smaller than n bytes.           *)
(***************************************************************************)
MaxBufLen == 3

Buffers == [kind : BufferKinds, len : 0 .. MaxBufLen]

NoBuffer == [kind |-> "None", len |-> 0]

\* HLStream.read(buf, n)
read(buf, n) ==
    LET b == IF buf = NoBuffer THEN [kind |-> "bytearray", len |-> n]
             ELSE buf
    IN  IF b.kind # "bytearray"
        THEN [raised |-> TRUE, exception |-> "TypeError", lib_calls |-> 0]
        ELSE IF b.len < n
        THEN [raised |-> TRUE, exception |-> "ValueError", lib_calls |-> 0]
        ELSE [raised |-> FALSE, exception |-> None, lib_calls |-> 1]

\* HLStream.write(buf, n)
write(buf, n) ==
    LET c == _get_const_compatible_buffer(buf.len, buf.kind, n)
    IN  IF c.raised
        THEN [raised |-> TRUE, exception |-> c.exception, lib_calls |-> 0]
        ELSE [raised |-> FALSE, exception |-> None, lib_calls |-> 1]

notBuffer ==
    <<packages, bound, raw, args, main, calls, stack, console, val, batch,
      ls, find, tree, cb, det, look, typ, opt, attr>>

Done(r) ==
    io' = [io EXCEPT !.pc = "done", !.raised = r.raised,
                     !.exception = r.exception, !.lib_calls = r.lib_calls]

IoRead ==
    /\ io.pc = "ready"
    /\ io.fn = "read"
    /\ Done(read(io.buf, io.n))
    /\ UNCHANGED notBuffer

IoWrite ==
    /\ io.pc = "ready"
    /\ io.fn = "write"
    /\ io.buf # NoBuffer
    /\ Done(write(io.buf, io.n))
    /\ UNCHANGED notBuffer

IoGetPackageTypeFromMemory ==
    /\ io.pc = "ready"
    /\ io.fn = "get_package_type_from_memory"
    /\ io.buf # NoBuffer
    /\ \E detected \in PackageTypes :
        LET r == get_package_type_from_memory(io.buf.len, io.buf.kind, io.n,
                                              detected)
        IN  Done([raised |-> r.raised, exception |-> r.exception,
                  lib_calls |-> r.lib_calls])
    /\ UNCHANGED notBuffer

BufferNext ==
    \/ IoRead
    \/ IoWrite
    \/ IoGetPackageTypeFromMemory

InitBuffer ==
    /\ packages = NoPackages
    /\ bound = NoPackage
    /\ raw = NoFlags
    /\ args = parse_arguments(NoFlags)
    /\ main = MainInit
    /\ calls = <<>>
    /\ stack = <<>>
    /\ console = Idle
    /\ val = Idle
    /\ batch = Idle
    /\ ls = Idle
    /\ find = Idle
    /\ tree = Idle
    /\ cb = Idle
    /\ det = Idle
    /\ look = Idle
    /\ typ = Idle
    /\ opt = Idle
    /\ attr = Idle
    /\ io \in [pc : {"ready"},
               fn : {"read", "write", "get_package_type_from_memory"},
               buf : Buffers \cup {NoBuffer}, n : 0 .. MaxBufLen,
               raised : {FALSE}, exception : {None}, lib_calls : {0}]

SpecBuffer == InitBuffer /\ [][BufferNext]_vars

\* C20: read with a buffer, write and get_package_type_from_memory raise
\* HLError, and do not call the library, when the buffer is shorter than
\* the length asked for.
C20_ShortBufferRejected ==
    io.pc = "done" /\ io.buf # NoBuffer /\ io.buf.len < io.n =>
        /\ io.raised
        /\ io.exception = "HLError"
        /\ io.lib_calls = 0

(***************************************************************************)
(* enter_console: the current item                                         *)
(*                                                                         *)
(* The console of the package main opened, with the commands that read or  *)
(* change the current item ('cd' and 'root') next to 'open' and 'exit'     *)
(* as modelled above.  console.root and console.item are the local         *)
(* variables root and item of the outermost enter_console; tree is the     *)
(* directory tree of its package, every item with a name.  The handles     *)
(* of a package's items are valid while the package is open: a call on an  *)
(* item of a closed package reads released memory, and may crash or yield  *)
(* anything.                                                               *)
(***************************************************************************)
MaxNavNodes == 3

Names == {"a", "b"}

\* What shlex.split leaves as the argument of 'cd'.
CdArguments == {None, ".", ".."} \cup Names

RECURSIVE NamedTrees(_)
NamedTrees(n) ==
    IF n = 1 THEN {<<[Root EXCEPT !.match = FALSE] @@ [name |-> "root"]>>}
    ELSE UNION {
            {Append(t, [type |-> type, parent |-> parent,
                        validation |-> HL_VALIDATES_OK, match |-> FALSE,
                        name |-> name]) :
                parent \in {i \in DOMAIN t : IsFolder(t, i)},
                type \in {"Folder", "File"}, name \in Names}
            : t \in NamedTrees(n - 1)}

\* HLDirectoryItem.get_parent: None for the item without a parent.
get_parent(t, item) == t[item].parent

RECURSIVE FirstFolderNamed(_, _, _, _)
FirstFolderNamed(t, kids, directory, item) ==
    IF kids = <<>> THEN item
    ELSE IF IsFolder(t, Head(kids)) /\ t[Head(kids)].name = directory
    THEN Head(kids)
    ELSE FirstFolderNamed(t, Tail(kids), directory, item)

\* console_cd(item, directory): the new current item.
console_cd(t, item, directory) ==
    IF directory \in {None, "."} THEN item
    ELSE IF directory = ".."
    THEN IF get_parent(t, item) = NoItem THEN item ELSE get_parent(t, item)
    ELSE FirstFolderNamed(t, Children(t, item), directory, item)

\* The package the outermost console was entered for has been closed.
Dangling == ~IsOpened(packages, console.package_id)

AtOuterPrompt == AtPrompt /\ stack = <<>>

\* root = hl.Package.get_root(); item = root
NavEnter ==
    /\ console.pc = "entering"
    /\ \/ console' = [console EXCEPT !.pc = "running", !.root = 1, !.item = 1]
       \/ console' = [console EXCEPT !.pc = "error"]
    /\ UNCHANGED <<packages, bound, stack, notOpen>>

\* The 'cd' command: item = console_cd(item, argument).  get_item raises
\* HLError when the library fails to give a child.
NavCd ==
    /\ AtOuterPrompt
    /\ console.commands < MaxCommands
    /\ \E directory \in CdArguments :
        LET done == [console EXCEPT !.commands = @ + 1,
                        !.last = [command |-> "cd", argument |-> directory,
                                  item |-> console.item]]
        IN  IF directory \in {None, "."}
            THEN console' = done
            ELSE IF ~Dangling
            THEN \/ console' = [done EXCEPT !.item =
                                    console_cd(tree, console.item, directory)]
                 \/ /\ directory \in Names
                    /\ Children(tree, console.item) # <<>>
                    /\ console' = [done EXCEPT !.pc = "error"]
            ELSE \/ \E garbage \in DOMAIN tree \cup {NoItem} :
                        console' = [done EXCEPT !.item = garbage]
                 \/ console' = [done EXCEPT !.pc = "crashed"]
    /\ UNCHANGED <<packages, bound, stack, notOpen>>

\* The 'root' command: item = root
NavRoot ==
    /\ AtOuterPrompt
    /\ console.commands < MaxCommands
    /\ console' = [console EXCEPT !.commands = @ + 1, !.item = console.root,
                        !.last = [command |-> "root", argument |-> None,
                                  item |-> console.item]]
    /\ UNCHANGED <<packages, bound, stack, notOpen>>

NavNext ==
    \/ NavEnter
    \/ NavCd
    \/ NavRoot
    \/ ConsoleOpen
    \/ ConsoleExit
    \/ ConsoleError
    \/ OpenCreateStream
    \/ OpenStreamOpen
    \/ OpenCreatePackage
    \/ OpenBindPackage
    \/ OpenOpenStream
    \/ OpenClose
    \/ OpenDelete
    \/ OpenBindCurrent
    \/ OpenStreamClose
    \/ OpenRelease
    \/ OpenExcept
    \/ OpenFinallyStreamClose
    \/ OpenFinallyRelease
    \/ OpenFinallyClose
    \/ OpenFinallyDelete
    \/ OpenFinallyBind
    \/ OpenReturn

\* main has created, bound and opened package 0 and calls enter_console.
InitNav ==
    /\ packages = [NoPackages EXCEPT ![0] = "opened"]
    /\ bound = 0
    /\ stack = <<>>
    /\ \E n \in 1 .. MaxNavNodes : tree \in NamedTrees(n)
    /\ console = [pc |-> "entering", package_id |-> 0, commands |-> 0,
                  root |-> NoItem, item |-> NoItem,
                  last |-> [command |-> None, argument |-> None,
                            item |-> NoItem]]
    /\ raw = NoFlags
    /\ args = parse_arguments(NoFlags)
    /\ main = [MainInit EXCEPT !.pc = "enter_console", !.package_id = 0,
                    !.package_created = TRUE, !.package_opened = TRUE]
    /\ calls = <<>>
    /\ val = Idle
    /\ batch = Idle
    /\ ls = Idle
    /\ find = Idle
    /\ cb = Idle
    /\ UnitsIdle

SpecNav == InitNav /\ [][NavNext]_vars

\* The current item is a folder of the tree of the console's package.
CurrentIsFolder ==
    /\ ~Dangling
    /\ console.item \in DOMAIN tree
    /\ IsFolder(tree, console.item)

\* Where 'cd <directory>' may lead from folder item.
CdTargets(item, directory) ==
    {item}
    \cup (IF directory = ".." THEN {tree[item].parent} \ {NoItem} ELSE {})
    \cup {i \in DOMAIN tree : /\ tree[i].parent = item
                              /\ IsFolder(tree, i)
                              /\ tree[i].name = directory}

\* C24: at every prompt of enter_console the current item is a folder of
\* the package the console was entered for; it is the root at the first
\* prompt and after 'root', and after 'cd' it is the item before the
\* command, its parent (for '..') or one of its children that is a folder
\* named as the argument says; 'cd ..' at the root and 'cd' to a missing
\* name leave it as it was.
C24_CurrentItemIsFolderOfPackage ==
    AtOuterPrompt =>
        /\ CurrentIsFolder
        /\ console.root = 1
        /\ console.commands = 0 => console.item = console.root
        /\ console.last.command = "root" => console.item = console.root
        /\ console.last.command = "cd" =>
                /\ console.item \in
                        CdTargets(console.last.item, console.last.argument)
                /\ (console.last.argument = ".." /\ console.last.item = 1)
                        => console.item = console.last.item
                /\ (/\ console.last.argument \in Names
                    /\ \A i \in DOMAIN tree :
                            tree[i].parent = console.last.item =>
                                tree[i].name # console.last.argument)
                        => console.item = console.last.item

(***************************************************************************)
(* HLAttribute: set(v, HL_ATTRIBUTE_UNSIGNED_INTEGER) followed by get()    *)
(*                                                                         *)
(* hlUInt is c_uint and hlInt is c_int, both 32 bits wide.  A Python int   *)
(* n is held by its sign and the two 16-bit halves of its magnitude:       *)
(* |n| = hi * 2^16 + lo; a 32-bit C value by the two halves of its bit     *)
(* pattern.  ctypes converts a Python int to a C integer argument by       *)
(* keeping the low 32 bits of its two's complement form, and converts a    *)
(* result to a Python int by reading the bit pattern as the restype says.  *)
(***************************************************************************)
Half == 65536

Halves == {0, 1, 2, 32767, 32768, 32769, 65534, 65535}

PyInts == [neg : BOOLEAN, hi : Halves, lo : Halves]
            \ {[neg |-> TRUE, hi |-> 0, lo |-> 0]}

Sign(n) == IF n.neg THEN -1 ELSE IF n.hi = 0 /\ n.lo = 0 THEN 0 ELSE 1

\* 2^32 - (hi * 2^16 + lo), for a pattern or a magnitude that is not 0
Complement(hi, lo) ==
    IF lo = 0 THEN [hi |-> Half - hi, lo |-> 0]
    ELSE [hi |-> Half - 1 - hi, lo |-> Half - lo]

\* A Python int below 2^32 in size as an hlUInt (or hlInt) argument.
AsArgument(n) ==
    IF n.neg THEN Complement(n.hi, n.lo) ELSE [hi |-> n.hi, lo |-> n.lo]

\* restype c_int: the pattern read as a two's complement number.
FromInt(bits) ==
    IF bits.hi < Half \div 2 THEN [neg |-> FALSE, hi |-> bits.hi, lo |-> bits.lo]
    ELSE LET m == Complement(bits.hi, bits.lo)
         IN  [neg |-> TRUE, hi |-> m.hi, lo |-> m.lo]

\* _hl.hlAttributeGetUnsignedInteger.restype = hlInt
hlAttributeGetUnsignedInteger(bits) == FromInt(bits)

\* _hl.hlAttributeGetInteger.restype = hlInt
hlAttributeGetInteger(bits) == FromInt(bits)

\* HLAttribute.get() for an attribute that holds an integer.
get(type, bits) ==
    IF type = "HL_ATTRIBUTE_INTEGER" THEN hlAttributeGetInteger(bits)
    ELSE hlAttributeGetUnsignedInteger(bits)

UIntTypes == {"HL_ATTRIBUTE_INTEGER", "HL_ATTRIBUTE_UNSIGNED_INTEGER"}

\* attribute.set(value, attribute_type, hexadecimal), attribute_type one of
\* the two integer types
UIntSet ==
    /\ attr.pc = "ready"
    /\ LET r == set(3, [kind |-> "int", v |-> Sign(attr.value)],
                    attr.attribute_type)
       IN  IF r.outcome # "called"
           THEN attr' = [attr EXCEPT !.pc = "done", !.outcome = r.outcome]
           ELSE attr' = [attr EXCEPT !.pc = "set",
                            !.type = TypeSetBy(r.setter),
                            !.bits = AsArgument(attr.value)]
    /\ UNCHANGED notAttribute

\* attribute.get()
UIntGet ==
    /\ attr.pc = "set"
    /\ attr' = [attr EXCEPT !.pc = "done", !.outcome = "returned",
                    !.result = get(attr.type, attr.bits)]
    /\ UNCHANGED notAttribute

UIntNext ==
    \/ UIntSet
    \/ UIntGet

InitUInt ==
    /\ packages = NoPackages
    /\ bound = NoPackage
    /\ raw = NoFlags
    /\ args = parse_arguments(NoFlags)
    /\ main = MainInit
    /\ calls = <<>>
    /\ stack = <<>>
    /\ console = Idle
    /\ val = Idle
    /\ batch = Idle
    /\ ls = Idle
    /\ find = Idle
    /\ tree = Idle
    /\ cb = Idle
    /\ det = Idle
    /\ look = Idle
    /\ typ = Idle
    /\ opt = Idle
    /\ io = Idle
    /\ \E value \in PyInts : \E attribute_type \in UIntTypes :
        attr = [pc |-> "ready", value |-> value,
                attribute_type |-> attribute_type,
                type |-> "HL_ATTRIBUTE_INVALID",
                bits |-> [hi |-> 0, lo |-> 0],
                result |-> [neg |-> FALSE, hi |-> 0, lo |-> 0],
                outcome |-> None]

SpecUInt == InitUInt /\ [][UIntNext]_vars

\* C25: for every v with 0 <= v < 2^32, set(v,
\* HL_ATTRIBUTE_UNSIGNED_INTEGER) followed by get() returns v, a number
\* that is not negative, also when v >= 2^31.
C25_UnsignedRoundTrip ==
    /\ attr.pc = "done"
    /\ attr.attribute_type = "HL_ATTRIBUTE_UNSIGNED_INTEGER"
    /\ ~attr.value.neg
    => /\ attr.outcome = "returned"
       /\ attr.type = "HL_ATTRIBUTE_UNSIGNED_INTEGER"
       /\ attr.result = attr.value
       /\ ~attr.result.neg

(***************************************************************************)
(* set_value for the HL_PROC_* options: the module-level holders           *)
(*                                                                         *)
(* Each _set_proc_<option> function wraps the callback in a ctypes         *)
(* function object, assigns it to a name and gives hlSetVoid the value of  *)
(* a module global.  A name assigned in a function is a module global      *)
(* only when the function declares it global; a name read in a function    *)
(* that is bound neither there nor in the module raises NameError.  A      *)
(* ctypes object is known by the call that made it and the callback it     *)
(* wraps; Null is the None the holders start with.                         *)
(***************************************************************************)
\* The _set_proc_<option> functions: the name declared global, the name
\* assigned, what is wrapped, whether the function defines wrapper, and
\* the name given to hlSetVoid.
_set_proc(option) ==
    CASE option = "HL_PROC_OPEN" ->
            [global |-> "_proc_open", assigns |-> "_proc_open", wraps |-> "callback",
             defines_wrapper |-> FALSE, registers |-> "_proc_open"]
      [] option = "HL_PROC_CLOSE" ->
            [global |-> "_proc_close", assigns |-> "_proc_open", wraps |-> "wrapper",
             defines_wrapper |-> FALSE, registers |-> "_proc_close"]
      [] option = "HL_PROC_READ" ->
            [global |-> "_proc_read", assigns |-> "_proc_read", wraps |-> "callback",
             defines_wrapper |-> FALSE, registers |-> "_proc_read"]
      [] option = "HL_PROC_WRITE" ->
            [global |-> "_proc_write", assigns |-> "_proc_write", wraps |-> "callback",
             defines_wrapper |-> FALSE, registers |-> "_proc_write"]
      [] option = "HL_PROC_SEEK" ->
            [global |-> "_proc_seek", assigns |-> "_proc_seek", wraps |-> "callback",
             defines_wrapper |-> FALSE, registers |-> "_proc_seek"]
      [] option = "HL_PROC_SEEK_EX" ->
            [global |-> "_proc_seek_ex", assigns |-> "_proc_seek_ex", wraps |-> "callback",
             defines_wrapper |-> FALSE, registers |-> "_proc_seek_ex"]
      [] option = "HL_PROC_TELL" ->
            [global |-> "_proc_tell", assigns |-> "_proc_tell", wraps |-> "callback",
             defines_wrapper |-> FALSE, registers |-> "_proc_tell"]
      [] option = "HL_PROC_TELL_EX" ->
            [global |-> "_proc_tell_ex", assigns |-> "_proc_tell_ex", wraps |-> "callback",
             defines_wrapper |-> FALSE, registers |-> "_proc_tell_ex"]
      [] option = "HL_PROC_SIZE" ->
            [global |-> "_proc_size", assigns |-> "_proc_size", wraps |-> "callback",
             defines_wrapper |-> FALSE, registers |-> "_proc_size"]
      [] option = "HL_PROC_SIZE_EX" ->
            [global |-> "_proc_size_ex", assigns |-> "_proc_size_ex", wraps |-> "callback",
             defines_wrapper |-> FALSE, registers |-> "_proc_size_ex"]
      [] option = "HL_PROC_EXTRACT_ITEM_START" ->
            [global |-> "_proc_extract_item_start", assigns |-> "_proc_extract_item_start", wraps |-> "wrapper",
             defines_wrapper |-> TRUE, registers |-> "_proc_extract_item_start"]
      [] option = "HL_PROC_EXTRACT_ITEM_END" ->
            [global |-> "_proc_extract_item_end", assigns |-> "_proc_extract_item_end", wraps |-> "wrapper",
             defines_wrapper |-> TRUE, registers |-> "_proc_extract_item_end"]
      [] option = "HL_PROC_EXTRACT_FILE_PROGRESS" ->
            [global |-> "_proc_extract_file_progress", assigns |-> "_proc_extract_file_progress", wraps |-> "wrapper",
             defines_wrapper |-> TRUE, registers |-> "_proc_extract_file_progress"]
      [] option = "HL_PROC_VALIDATE_FILE_PROGRESS" ->
            [global |-> "_proc_validate_file_progress", assigns |-> "_proc_validate_file_progress", wraps |-> "wrapper",
             defines_wrapper |-> TRUE, registers |-> "_proc_validate_file_progress"]
      [] option = "HL_PROC_DEFRAGMENT_PROGRESS" ->
            [global |-> "_proc_defragment_progress", assigns |-> "_proc_defragment_progress", wraps |-> "wrapper",
             defines_wrapper |-> TRUE, registers |-> "_proc_defragment_progress"]
      [] option = "HL_PROC_DEFRAGMENT_PROGRESS_EX" ->
            [global |-> "_proc_defragment_progress_ex", assigns |-> "_proc_defragment_progress_ex", wraps |-> "wrapper",
             defines_wrapper |-> TRUE, registers |-> "_proc_defragment_progress_ex"]

ProcHolders == {_set_proc(option).global : option \in ProcOptions}

Callbacks == {1, 2}

\* The hl_type arguments tried: the two keys of a callback option, the
\* key of a boolean option, and a type that is no key of either.
ProcTypes == {"None", "hlVoidPtr", "hlBool", "hlUInt"}

Null == [made |-> 0, callback |-> 0]

\* set_value(option, callback, hl_type)
ProcSetValue ==
    /\ opt.n < MaxCalls
    /\ \E option \in HLOption : \E hl_type \in ProcTypes :
       \E callback \in Callbacks :
        LET f == set_value(option, hl_type)
            done == [opt EXCEPT !.pc = "returned", !.n = @ + 1,
                        !.last = [option |-> option, hl_type |-> hl_type,
                                  callback |-> callback, outcome |-> "returned",
                                  holders |-> opt.holders,
                                  registered |-> opt.registered]]
        IN  IF f = "HLError"
            THEN opt' = [done EXCEPT !.last.outcome = "HLError"]
            ELSE IF f = "hlSetBoolean"
            THEN opt' = [done EXCEPT !.lib_calls = @ + 1]
            ELSE LET s == _set_proc(option)
                     object == [made |-> opt.n + 1, callback |-> callback]
                     holders == IF s.assigns = s.global
                                THEN [opt.holders EXCEPT ![s.global] = object]
                                ELSE opt.holders
                 IN  IF s.wraps = "wrapper" /\ ~s.defines_wrapper
                     THEN opt' = [done EXCEPT !.last.outcome = "NameError"]
                     ELSE opt' = [done EXCEPT !.lib_calls = @ + 1,
                                    !.holders = holders,
                                    !.registered[option] = holders[s.registers]]
    /\ UNCHANGED notOptions

ProcNext ==
    \/ ProcSetValue

InitProc ==
    /\ packages = NoPackages
    /\ bound = NoPackage
    /\ raw = NoFlags
    /\ args = parse_arguments(NoFlags)
    /\ main = [MainInit EXCEPT !.pc = "set_options"]
    /\ calls = <<>>
    /\ stack = <<>>
    /\ console = Idle
    /\ val = Idle
    /\ batch = Idle
    /\ ls = Idle
    /\ find = Idle
    /\ tree = Idle
    /\ cb = Idle
    /\ det = Idle
    /\ look = Idle
    /\ typ = Idle
    /\ attr = Idle
    /\ io = Idle
    /\ opt = [pc |-> "ready", n |-> 0, lib_calls |-> 0,
              holders |-> [h \in ProcHolders |-> Null],
              registered |-> [option \in ProcOptions |-> Null],
              last |-> [option |-> None, hl_type |-> None, callback |-> 0,
                        outcome |-> None,
                        holders |-> [h \in ProcHolders |-> Null],
                        registered |-> [option \in ProcOptions |-> Null]]]

SpecProc == InitProc /\ [][ProcNext]_vars

\* C26: after set_value(option, callback) for an HL_PROC_* option of the
\* setter table, the option's own holder keeps a new object that wraps
\* the callback, that object is what hlSetVoid registered for the option
\* (never an empty holder), and every other holder and every other
\* registration is as before.
C26_CallbackKeptAndRegistered ==
    /\ opt.pc = "returned"
    /\ opt.last.option \in ProcOptions
    /\ <<opt.last.option, opt.last.hl_type>> \in _setters
    => LET own == _set_proc(opt.last.option).global
       IN  /\ opt.last.outcome = "returned"
           /\ opt.holders[own] = [made |-> opt.n, callback |-> opt.last.callback]
           /\ opt.registered[opt.last.option] = opt.holders[own]
           /\ opt.registered[opt.last.option] # Null
           /\ \A h \in ProcHolders \ {own} : opt.holders[h] = opt.last.holders[h]
           /\ \A o \in ProcOptions \ {opt.last.option} :
                    opt.registered[o] = opt.last.registered[o]

(***************************************************************************)
(* _hl_directory_instance(handle)                                          *)
(*                                                                         *)
(* The function over everything it can be given: no handle (None), or a    *)
(* handle for which hlItemGetType, an hlInt, answers with one of the       *)
(* three values of HLDirectoryItemType or with another number.  A Python   *)
(* function that ends without a return statement returns None.             *)
(***************************************************************************)
HL_ITEM_NONE == 0
HL_ITEM_FOLDER == 1
HL_ITEM_FILE == 2

MaxHandle == 8
MaxTag == 6

Handles == 1 .. MaxHandle
ItemTypes == (0 - 2) .. MaxTag

\* The if / elif chain of _hl_directory_instance, which has no else.
hl_directory_instance(handle, item_type) ==
    IF handle = NoItem THEN "HLError"
    ELSE IF item_type = HL_ITEM_NONE THEN "HLError"
    ELSE IF item_type = HL_ITEM_FOLDER THEN "HLDirectoryFolder"
    ELSE IF item_type = HL_ITEM_FILE THEN "HLDirectoryFile"
    ELSE "None"

\* One call.  hlItemGetType is asked once by the function and once more
\* by the assert of the wrapper's __init__, which gets the same answer.
InstCall ==
    /\ look.pc = "ready"
    /\ LET r == hl_directory_instance(look.handle, look.item_type)
       IN  look' = [look EXCEPT !.pc = "done", !.result = r,
                        !.lib_calls =
                            IF look.handle = NoItem THEN 0
                            ELSE IF r \in {"HLDirectoryFolder",
                                           "HLDirectoryFile"} THEN 2
                            ELSE 1]
    /\ UNCHANGED <<tree, notLookup>>

InstNext ==
    \/ InstCall

InitInst ==
    /\ packages = NoPackages
    /\ bound = NoPackage
    /\ raw = NoFlags
    /\ args = parse_arguments(NoFlags)
    /\ main = MainInit
    /\ calls = <<>>
    /\ stack = <<>>
    /\ console = Idle
    /\ val = Idle
    /\ batch = Idle
    /\ ls = Idle
    /\ find = Idle
    /\ tree = Idle
    /\ cb = Idle
    /\ det = Idle
    /\ typ = Idle
    /\ opt = Idle
    /\ attr = Idle
    /\ io = Idle
    /\ \E handle \in Handles \cup {NoItem} : \E item_type \in ItemTypes :
        look = [pc |-> "ready", handle |-> handle, item_type |-> item_type,
                lib_calls |-> 0, result |-> "unset"]

SpecInst == InitInst /\ [][InstNext]_vars

\* C27: _hl_directory_instance returns an HLDirectoryFolder exactly when
\* the handle's type is HL_ITEM_FOLDER, an HLDirectoryFile exactly when it
\* is HL_ITEM_FILE, and raises HLError for everything else: no handle,
\* HL_ITEM_NONE, or any other number; it never returns None.
C27_WrapperFollowsTypeTag ==
    look.pc = "done" =>
        /\ look.result = "HLDirectoryFolder" <=>
                (look.handle # NoItem /\ look.item_type = HL_ITEM_FOLDER)
        /\ look.result = "HLDirectoryFile" <=>
                (look.handle # NoItem /\ look.item_type = HL_ITEM_FILE)
        /\ (look.handle = NoItem
                \/ look.item_type \notin {HL_ITEM_FOLDER, HL_ITEM_FILE})
                => look.result = "HLError"
        /\ look.result # "None"

=============================================================================
